---- MODULE Spec2Model ----
(***************************************************************************)
(* Block-level filter evaluator of the LogsQL engine (lib/logstorage):     *)
(* the OR / NOT combinators, the string_range and range leaf filters and   *)
(* the count_empty stats processor, evaluated over one column block.       *)
(*                                                                         *)
(* Strings are sequences of byte values, compared byte-wise as Go compares *)
(* strings.  A bitmap is a record [id, bitsLen, a] where a is the set of   *)
(* set bit indices (0-based) and id names the pooled object (0 for the     *)
(* caller's own bitmap).                                                   *)
(***************************************************************************)
EXTENDS Integers, Sequences, FiniteSets, TLC

VARIABLES
    op,      \* the operation the state is about
    pc,      \* "call" before the operation has run, "done" after
    otlpReq, \* the OTLP push requests: headers, what fails, and the unpacked ExportLogsServiceRequest
    hs,      \* per request, the state of its handleInsert call: position, the writeLogsContext it holds, the result of ParseLogsStream, the calls made on getStream and the functions it returned
    wrLogsPool, \* the pooled writeLogsContexts
    otelMetrics, \* per format: requestsTotal, ingestedTotal and the number of requestsDuration updates
    npipe,   \* the STATS pipe: byFields and funcs (each with its fields and resultName)
    need0,   \* neededFields as the pipes to the right of the STATS pipe left it
    unneed0, \* unneededFields as the pipes to the right of the STATS pipe left it
    need,    \* neededFields after the STATS pipe
    unneed,  \* unneededFields after the STATS pipe
    ipq,     \* the argument of ipv4_range: the address and the prefix length after "/"
    ipf,     \* the filterIPv4Range parsed from it: ok, minValue, maxValue
    tq,      \* the _time filter text: the time spec and the duration after "offset"
    tnow,    \* the time the query is parsed at (lexer.currentTimestamp)
    tft,     \* the filterTime parsed from the text with its offset
    tft0,    \* the filterTime parsed from the same text without the offset
    fset,    \* the fieldsSet: the keys of the map
    fset0,   \* the fieldsSet before the last call
    fcall,   \* the last call made on the fieldsSet: method and argument
    fcalls,  \* the number of calls made on the fieldsSet
    qs,      \* the query string handed to ParseQuery
    qast,    \* the filter ParseQuery built from qs
    qstr,    \* String() of qast
    qast2,   \* the filter ParseQuery built from qstr
    qstr2,   \* String() of qast2
    qerr2,   \* ParseQuery returned an error for qstr
    arch,    \* the build target, which decides out-of-range float conversions
    bs,      \* the block being searched (blockSearch)
    flt,     \* the filter applied
    bm0,     \* the caller's bitmap on entry
    bm,      \* the caller's bitmap (updated in place by apply)
    pool0,   \* the bitmap pool on entry
    pool,    \* the bitmap pool
    calls,   \* the branch invocations made by the outermost filterOr.apply
    br,      \* the block result handed to the stats processor (blockResult)
    scp0,    \* the count_empty processor on entry
    scp,     \* the count_empty processor (statsCountEmptyProcessor)
    ret,     \* the value returned by the stats processor call
    rowNext, \* the next row updateStatsForRow is called for
    procs0,  \* the per-worker count_empty processors before merging
    procs,   \* the per-worker count_empty processors
    live,    \* the workers whose processor has not been merged into another
    merges,  \* the mergeState calls made: destination, source, both before and after the call
    ast,     \* the filterAnyCasePhrase the workers share: phrase, the two Once, the two memos
    wpc,     \* where each worker is in its getter call
    wget,    \* the getter each worker calls: "phraseLowercase" or "tokens"
    wret,    \* the value the getter returned to each worker
    waited,  \* whether the worker entered Do while another worker held the Once's mutex
    initRuns, \* how many times each init function has run
    alocal   \* the locals phraseLowercase and tokens of the apply call of worker 1

filterVars == <<arch, bs, flt, bm0, bm, pool0, pool, calls>>
statsVars == <<br, scp0, scp, ret, rowNext>>
mergeVars == <<procs0, procs, live, merges>>
onceVars == <<ast, wpc, wget, wret, waited, initRuns, alocal>>
parseVars == <<qs, qast, qstr, qast2, qstr2, qerr2>>
fieldsSetVars == <<fset, fset0, fcall, fcalls>>
timeVars == <<tq, tnow, tft, tft0>>
iPv4Vars == <<ipq, ipf>>
neededVars == <<npipe, need0, unneed0, need, unneed>>
otlpVars == <<otlpReq, hs, wrLogsPool, otelMetrics>>

vars == <<op, pc, filterVars, statsVars, mergeVars, onceVars, parseVars, fieldsSetVars, timeVars, iPv4Vars, neededVars, otlpVars>>

\* the variables outside each component
outsideFilter == <<statsVars, mergeVars, onceVars, parseVars, fieldsSetVars, timeVars, iPv4Vars, neededVars, otlpVars>>
outsideStats == <<arch, bs, flt, bm0, bm, pool0, calls, mergeVars, onceVars, parseVars, fieldsSetVars, timeVars, iPv4Vars, neededVars, otlpVars>>  \* the pool is shared
outsideMerge == <<filterVars, statsVars, onceVars, parseVars, fieldsSetVars, timeVars, iPv4Vars, neededVars, otlpVars>>
outsideOnce == <<filterVars, statsVars, mergeVars, parseVars, fieldsSetVars, timeVars, iPv4Vars, neededVars, otlpVars>>
outsideParse == <<filterVars, statsVars, mergeVars, onceVars, fieldsSetVars, timeVars, iPv4Vars, neededVars, otlpVars>>
outsideFieldsSet == <<filterVars, statsVars, mergeVars, onceVars, parseVars, timeVars, iPv4Vars, neededVars, otlpVars>>
outsideTime == <<filterVars, statsVars, mergeVars, onceVars, parseVars, fieldsSetVars, iPv4Vars, neededVars, otlpVars>>
outsideIPv4 == <<filterVars, statsVars, mergeVars, onceVars, parseVars, fieldsSetVars, timeVars, neededVars, otlpVars>>
outsideNeeded == <<filterVars, statsVars, mergeVars, onceVars, parseVars, fieldsSetVars, timeVars, iPv4Vars, otlpVars>>
outsideOtlp == <<filterVars, statsVars, mergeVars, onceVars, parseVars, fieldsSetVars, timeVars, iPv4Vars, neededVars>>

----------------------------------------------------------------------------
(* Bounds *)

NumRows == 2

\* the number of calls made on a fieldsSet
MaxCalls == 3

\* the longest field list handed to addAll and removeAll
MaxFields == 2

\* the number of OTLP push requests in flight
MaxRequests == 2

\* the number of operators nested in the query strings
MaxDepth == 2

\* the number of workers, each with a count_empty processor of its own
NumProcs == 3

\* the number of workers sharing one filter
NumWorkers == 2

----------------------------------------------------------------------------
(* Byte strings *)

RECURSIVE StrLess(_, _)
\* Go's s < t on strings: byte-wise lexicographic order, a proper prefix is smaller
StrLess(s, t) ==
    IF Len(t) = 0 THEN FALSE
    ELSE IF Len(s) = 0 THEN TRUE
    ELSE IF Head(s) # Head(t) THEN Head(s) < Head(t)
    ELSE StrLess(Tail(s), Tail(t))

StrLessEq(s, t) == ~StrLess(t, s)

\* string literals used by the model
S_empty == <<>>
S_plus  == <<43>>
S_0     == <<48>>
S_1     == <<49>>
S_9     == <<57>>
S_90    == <<57, 48>>
S_99    == <<57, 57>>
S_a     == <<97>>
S_b     == <<98>>
S_c     == <<99>>
S_d     == <<100>>

S_dot   == <<46>>
S_m1    == <<45, 49>>
S_1p5   == <<49, 46, 53>>
S_pInf  == <<43, 73, 110, 102>>
S_ts0   == <<49, 57, 55, 48, 45, 48, 49, 45, 48, 49, 84, 48, 48, 58, 48, 48, 58, 48, 48, 90>>
S_ts1   == <<50, 48, 50, 51, 45, 48, 50, 45, 50, 56, 84, 48, 48, 58, 48, 48, 58, 48, 48, 46, 49, 50, 51, 90>>

SeqRange(q) == { q[k] : k \in 1 .. Len(q) }

----------------------------------------------------------------------------
(* Unsigned integers are big-endian byte sequences; a uint64 has 8 bytes *)

IsZeroBytes(b) == \A k \in DOMAIN b : b[k] = 0

Zeros(n) == [k \in 1 .. n |-> 0]

\* uint64(x) of a narrower unsigned value
ToUint64(b) == Zeros(8 - Len(b)) \o b

U64Less(x, y) == StrLess(x, y)
U64LessEq(x, y) == ~StrLess(y, x)

RECURSIVE DivMod10(_, _)
\* long division of a big-endian byte sequence by 10
DivMod10(b, carry) ==
    IF Len(b) = 0 THEN [q |-> <<>>, r |-> carry]
    ELSE LET cur  == carry * 256 + Head(b)
             rest == DivMod10(Tail(b), cur % 10)
         IN  [q |-> <<cur \div 10>> \o rest.q, r |-> rest.r]

RECURSIVE marshalUint64String(_)
\* decimal representation, no leading zeros
marshalUint64String(b) ==
    LET d == DivMod10(b, 0)
    IN  IF IsZeroBytes(d.q) THEN <<48 + d.r>>
        ELSE marshalUint64String(d.q) \o <<48 + d.r>>

RECURSIVE Inc(_)
\* b + 1 on a big-endian byte sequence (the model never overflows it)
Inc(b) ==
    LET n == Len(b)
    IN  IF n = 0 THEN <<>>
        ELSE IF b[n] < 255 THEN [b EXCEPT ![n] = b[n] + 1]
        ELSE Inc(SubSeq(b, 1, n - 1)) \o <<0>>

RECURSIVE MulAdd10(_, _)
\* b * 10 + c on a big-endian byte sequence of fixed length
MulAdd10(b, c) ==
    LET n == Len(b)
    IN  IF n = 0 THEN <<>>
        ELSE LET cur == b[n] * 10 + c
             IN  MulAdd10(SubSeq(b, 1, n - 1), cur \div 256) \o <<cur % 256>>

MaxUint64 == <<255, 255, 255, 255, 255, 255, 255, 255>>

----------------------------------------------------------------------------
(* float64 values: [neg, inf, int, half] stands for (-1)^neg * (int + half/2), *)
(* or for +-Inf when inf holds; int is a 9-byte big-endian integer, so that    *)
(* values up to 2^72 are exact.  NaN is not a value of the model.              *)

Flt(neg, int, half) == [neg |-> neg, inf |-> FALSE, int |-> int, half |-> half]
FInf(neg) == [neg |-> neg, inf |-> TRUE, int |-> Zeros(9), half |-> FALSE]

Int9(b) == Zeros(9 - Len(b)) \o b

F_zero  == Flt(FALSE, Zeros(9), FALSE)
\* float64(math.MaxUint64) rounds to 2^64
F_2p64  == Flt(FALSE, <<1>> \o Zeros(8), FALSE)

FIsZero(f) == ~f.inf /\ IsZeroBytes(f.int) /\ ~f.half

FMagLess(f, g) ==
    IF f.inf THEN FALSE
    ELSE IF g.inf THEN TRUE
    ELSE StrLess(f.int, g.int) \/ (f.int = g.int /\ ~f.half /\ g.half)

\* f < g
FLess(f, g) ==
    IF FIsZero(f) /\ FIsZero(g) THEN FALSE
    ELSE IF f.neg /\ ~g.neg THEN TRUE
    ELSE IF ~f.neg /\ g.neg THEN FALSE
    ELSE IF ~f.neg THEN FMagLess(f, g)
    ELSE FMagLess(g, f)

FLessEq(f, g) == ~FLess(g, f)

\* math.Ceil
Ceil(f) ==
    IF f.inf \/ ~f.half THEN f
    ELSE IF f.neg THEN Flt(TRUE, f.int, FALSE)
    ELSE Flt(FALSE, Inc(f.int), FALSE)

\* math.Floor
Floor(f) ==
    IF f.inf \/ ~f.half THEN f
    ELSE IF f.neg THEN Flt(TRUE, Inc(f.int), FALSE)
    ELSE Flt(FALSE, f.int, FALSE)

\* float64(n) of an unsigned integer held exactly
FromUint64(n) == Flt(FALSE, Int9(n), FALSE)

\* uint64(f) for an integral f >= 0.  2^64 is not representable: the result is
\* implementation-dependent, 2^63 on amd64 and the saturated 2^64-1 on arm64
ConvUint64(f, a) ==
    IF f.int[1] # 0
    THEN IF a = "amd64" THEN <<128, 0, 0, 0, 0, 0, 0, 0>> ELSE MaxUint64
    ELSE SubSeq(f.int, 2, 9)

\* the float64 values stored in the float64 columns of the model
Float64frombits(v) ==
    CASE v = <<63, 248, 0, 0, 0, 0, 0, 0>>  -> Flt(FALSE, Int9(<<1>>), TRUE)
      [] v = <<191, 240, 0, 0, 0, 0, 0, 0>> -> Flt(TRUE, Int9(<<1>>), FALSE)
      [] v = <<64, 86, 128, 0, 0, 0, 0, 0>> -> Flt(FALSE, Int9(<<90>>), FALSE)
      [] v = <<127, 240, 0, 0, 0, 0, 0, 0>> -> FInf(FALSE)

RECURSIVE parseDigits(_, _)
\* the decimal digits of s accumulated into acc; <<>> when s has a non-digit
parseDigits(s, acc) ==
    IF Len(s) = 0 THEN <<acc>>
    ELSE IF Head(s) < 48 \/ Head(s) > 57 THEN <<>>
    ELSE parseDigits(Tail(s), MulAdd10(acc, Head(s) - 48))

\* [-]digits[.5]: the decimal numbers the strings of the model can spell.
\* Returns <<f>> when s parses and <<>> otherwise.
tryParseFloat64(s) ==
    IF Len(s) = 0 THEN <<>>
    ELSE LET minus == s[1] = 45
             t     == IF minus THEN Tail(s) ELSE s
             n     == Len(t)
             half  == n >= 2 /\ t[n - 1] = 46 /\ t[n] = 53
             ds    == IF half THEN SubSeq(t, 1, n - 2) ELSE t
             p     == IF Len(ds) = 0 THEN <<>> ELSE parseDigits(ds, Zeros(9))
         IN  IF Len(p) = 0 THEN <<>> ELSE <<Flt(minus, p[1], half)>>

----------------------------------------------------------------------------
(* Bitmap and its pool *)

\* a bitmap is [id, bitsLen, a, ops]: a is the set of the set bits (0-based) and
\* ops lists the resetBits, forEachSetBit and matchEncodedValuesDict calls made
\* on it, in order

Rows(n) == 0 .. (n - 1)

getBitmap(p, bitsLen) ==
    [pool |-> [p EXCEPT !.got = p.got + 1],
     bm   |-> [id |-> p.got + 1, bitsLen |-> bitsLen, a |-> {}, ops |-> <<>>]]

putBitmap(p, b) == [p EXCEPT !.put = Append(p.put, b.id)]

copyFrom(dst, src) == [dst EXCEPT !.bitsLen = src.bitsLen, !.a = src.a]

andNot(b, x) == [b EXCEPT !.a = b.a \ x.a]

bitmapOr(b, x) == [b EXCEPT !.a = b.a \cup x.a]

isZero(b) == b.a = {}

resetBits(b) == [b EXCEPT !.a = {}, !.ops = Append(@, "resetBits")]

setBits(b) == [b EXCEPT !.a = Rows(b.bitsLen)]

onesCount(b) == Cardinality(b.a)

\* the callback returns whether the bit remains set
forEachSetBit(b, f) == [b EXCEPT !.a = {i \in b.a : f[i]}, !.ops = Append(@, "forEachSetBit")]

----------------------------------------------------------------------------
(* Column block accessors *)

RECURSIVE getConstColumnValue(_, _)
getConstColumnValue(constColumns, name) ==
    IF Len(constColumns) = 0 THEN S_empty
    ELSE IF Head(constColumns).name = name THEN Head(constColumns).value
    ELSE getConstColumnValue(Tail(constColumns), name)

RECURSIVE getColumnHeader(_, _)
\* <<>> stands for the nil header
getColumnHeader(columnsHeaders, name) ==
    IF Len(columnsHeaders) = 0 THEN <<>>
    ELSE IF Head(columnsHeaders).name = name THEN <<Head(columnsHeaders)>>
    ELSE getColumnHeader(Tail(columnsHeaders), name)

\* f maps the values of the column to the verdict of the callback
visitValues(b, ch, f) ==
    IF isZero(b) THEN b
    ELSE forEachSetBit(b, [idx \in Rows(b.bitsLen) |-> f[ch.values[idx + 1]]])

matchEncodedValuesDict(b, ch, encodedValues) ==
    LET b1 == [b EXCEPT !.ops = Append(@, "matchEncodedValuesDict")]
    IN  IF Len(encodedValues) = 0 THEN resetBits(b1)
        ELSE visitValues(b1, ch,
                [v \in SeqRange(ch.values) |-> \E k \in 1 .. Len(encodedValues) : encodedValues[k] = v[1]])

----------------------------------------------------------------------------
(* filterStringRange *)

\* mutant: the upper bound is inclusive
matchStringRange_closed(s, minValue, maxValue) ==
    StrLessEq(minValue, s) /\ StrLessEq(s, maxValue)

matchStringRange(s, minValue, maxValue) ==
    StrLessEq(minValue, s) /\ StrLess(s, maxValue)

matchStringByStringRange(b, ch, minValue, maxValue) ==
    visitValues(b, ch, [v \in SeqRange(ch.values) |-> matchStringRange(v, minValue, maxValue)])

RECURSIVE dictMatches(_, _, _, _)
\* indices (0-based) of the dictionary entries matching the range, in order
dictMatches(values, i, minValue, maxValue) ==
    IF i > Len(values) THEN <<>>
    ELSE IF matchStringRange(values[i], minValue, maxValue)
         THEN <<i - 1>> \o dictMatches(values, i + 1, minValue, maxValue)
         ELSE dictMatches(values, i + 1, minValue, maxValue)

matchValuesDictByStringRange(b, ch, minValue, maxValue) ==
    matchEncodedValuesDict(b, ch, dictMatches(ch.valuesDict, 1, minValue, maxValue))

\* canonical string forms of the typed values
toUint8String(v)  == marshalUint64String(ToUint64(v))
toUint16String(v) == marshalUint64String(ToUint64(v))
toUint32String(v) == marshalUint64String(ToUint64(v))
toUint64String(v) == marshalUint64String(v)

\* dotted quad of the 4 bytes
toIPv4StringExt(v) ==
    marshalUint64String(<<v[1]>>) \o S_dot \o marshalUint64String(<<v[2]>>) \o S_dot \o
    marshalUint64String(<<v[3]>>) \o S_dot \o marshalUint64String(<<v[4]>>)

\* the float64 values of the model: IEEE-754 bits and shortest decimal form
toFloat64StringExt(v) ==
    CASE v = <<63, 248, 0, 0, 0, 0, 0, 0>>  -> S_1p5
      [] v = <<191, 240, 0, 0, 0, 0, 0, 0>> -> S_m1
      [] v = <<64, 86, 128, 0, 0, 0, 0, 0>> -> S_90
      [] v = <<127, 240, 0, 0, 0, 0, 0, 0>> -> S_pInf

\* the timestamps of the model: int64 nanoseconds and RFC3339 form
toTimestampISO8601StringExt(v) ==
    CASE v = <<0, 0, 0, 0, 0, 0, 0, 0>> -> S_ts0
      [] v = <<23, 71, 211, 236, 198, 252, 212, 192>> -> S_ts1

matchTimestampISO8601ByStringRange(b, ch, minValue, maxValue) ==
    IF StrLess(S_9, minValue) \/ StrLess(maxValue, S_0) THEN resetBits(b)
    ELSE visitValues(b, ch,
            [v \in SeqRange(ch.values) |-> matchStringRange(toTimestampISO8601StringExt(v), minValue, maxValue)])

matchIPv4ByStringRange(b, ch, minValue, maxValue) ==
    IF StrLess(S_9, minValue) \/ StrLess(maxValue, S_0) THEN resetBits(b)
    ELSE visitValues(b, ch,
            [v \in SeqRange(ch.values) |-> matchStringRange(toIPv4StringExt(v), minValue, maxValue)])

matchFloat64ByStringRange(b, ch, minValue, maxValue) ==
    IF StrLess(S_9, minValue) \/ StrLess(maxValue, S_plus) THEN resetBits(b)
    ELSE visitValues(b, ch,
            [v \in SeqRange(ch.values) |-> matchStringRange(toFloat64StringExt(v), minValue, maxValue)])

matchUint8ByStringRange(b, ch, minValue, maxValue) ==
    IF StrLess(S_9, minValue) \/ StrLess(maxValue, S_0) THEN resetBits(b)
    ELSE visitValues(b, ch,
            [v \in SeqRange(ch.values) |-> matchStringRange(toUint8String(v), minValue, maxValue)])

matchUint16ByStringRange(b, ch, minValue, maxValue) ==
    IF StrLess(S_9, minValue) \/ StrLess(maxValue, S_0) THEN resetBits(b)
    ELSE visitValues(b, ch,
            [v \in SeqRange(ch.values) |-> matchStringRange(toUint16String(v), minValue, maxValue)])

matchUint32ByStringRange(b, ch, minValue, maxValue) ==
    IF StrLess(S_9, minValue) \/ StrLess(maxValue, S_0) THEN resetBits(b)
    ELSE visitValues(b, ch,
            [v \in SeqRange(ch.values) |-> matchStringRange(toUint32String(v), minValue, maxValue)])

matchUint64ByStringRange(b, ch, minValue, maxValue) ==
    IF StrLess(S_9, minValue) \/ StrLess(maxValue, S_0) THEN resetBits(b)
    ELSE visitValues(b, ch,
            [v \in SeqRange(ch.values) |-> matchStringRange(toUint64String(v), minValue, maxValue)])

\* mutant: an absent column resets the bitmap whatever the bounds are
filterStringRange_apply_absentResets(fr, blk, b) ==
    LET v   == getConstColumnValue(blk.csh.constColumns, fr.fieldName)
        chs == getColumnHeader(blk.csh.columnsHeaders, fr.fieldName)
    IN  IF StrLess(fr.maxValue, fr.minValue) THEN resetBits(b)
        ELSE IF v # S_empty THEN
            IF ~matchStringRange(v, fr.minValue, fr.maxValue) THEN resetBits(b) ELSE b
        ELSE IF Len(chs) = 0 THEN resetBits(b)
        ELSE LET ch == chs[1] IN
            CASE ch.valueType = "string" -> matchStringByStringRange(b, ch, fr.minValue, fr.maxValue)
              [] ch.valueType = "dict"   -> matchValuesDictByStringRange(b, ch, fr.minValue, fr.maxValue)
              [] ch.valueType = "uint8"  -> matchUint8ByStringRange(b, ch, fr.minValue, fr.maxValue)
              [] ch.valueType = "uint16" -> matchUint16ByStringRange(b, ch, fr.minValue, fr.maxValue)
              [] ch.valueType = "uint32" -> matchUint32ByStringRange(b, ch, fr.minValue, fr.maxValue)
              [] ch.valueType = "uint64" -> matchUint64ByStringRange(b, ch, fr.minValue, fr.maxValue)
              [] ch.valueType = "float64" -> matchFloat64ByStringRange(b, ch, fr.minValue, fr.maxValue)
              [] ch.valueType = "ipv4"   -> matchIPv4ByStringRange(b, ch, fr.minValue, fr.maxValue)
              [] ch.valueType = "iso8601" ->
                    matchTimestampISO8601ByStringRange(b, ch, fr.minValue, fr.maxValue)


filterStringRange_apply(fr, blk, b) ==
    LET v   == getConstColumnValue(blk.csh.constColumns, fr.fieldName)
        chs == getColumnHeader(blk.csh.columnsHeaders, fr.fieldName)
    IN  IF StrLess(fr.maxValue, fr.minValue) THEN resetBits(b)
        ELSE IF v # S_empty THEN
            IF ~matchStringRange(v, fr.minValue, fr.maxValue) THEN resetBits(b) ELSE b
        ELSE IF Len(chs) = 0 THEN
            IF ~matchStringRange(S_empty, fr.minValue, fr.maxValue) THEN resetBits(b) ELSE b
        ELSE LET ch == chs[1] IN
            CASE ch.valueType = "string" -> matchStringByStringRange(b, ch, fr.minValue, fr.maxValue)
              [] ch.valueType = "dict"   -> matchValuesDictByStringRange(b, ch, fr.minValue, fr.maxValue)
              [] ch.valueType = "uint8"  -> matchUint8ByStringRange(b, ch, fr.minValue, fr.maxValue)
              [] ch.valueType = "uint16" -> matchUint16ByStringRange(b, ch, fr.minValue, fr.maxValue)
              [] ch.valueType = "uint32" -> matchUint32ByStringRange(b, ch, fr.minValue, fr.maxValue)
              [] ch.valueType = "uint64" -> matchUint64ByStringRange(b, ch, fr.minValue, fr.maxValue)
              [] ch.valueType = "float64" -> matchFloat64ByStringRange(b, ch, fr.minValue, fr.maxValue)
              [] ch.valueType = "ipv4"   -> matchIPv4ByStringRange(b, ch, fr.minValue, fr.maxValue)
              [] ch.valueType = "iso8601" ->
                    matchTimestampISO8601ByStringRange(b, ch, fr.minValue, fr.maxValue)

----------------------------------------------------------------------------
(* filterRange *)

toUint64Clamp(f) ==
    IF FLess(f, F_zero) THEN Zeros(8)
    ELSE IF FLess(F_2p64, f) THEN MaxUint64
    ELSE ConvUint64(f, arch)

toUint64Range(minValue, maxValue) ==
    [min |-> toUint64Clamp(Ceil(minValue)), max |-> toUint64Clamp(Floor(maxValue))]

matchRange(s, minValue, maxValue) ==
    LET p == tryParseFloat64(s)
    IN  IF Len(p) = 0 THEN FALSE
        ELSE FLessEq(minValue, p[1]) /\ FLessEq(p[1], maxValue)

matchFloat64ByRange(b, ch, minValue, maxValue) ==
    IF FLess(Float64frombits(ch.maxValue), minValue) \/ FLess(maxValue, Float64frombits(ch.minValue))
    THEN resetBits(b)
    ELSE visitValues(b, ch,
            [v \in SeqRange(ch.values) |-> LET f == Float64frombits(v)
                       IN  FLessEq(minValue, f) /\ FLessEq(f, maxValue)])

RECURSIVE dictMatchesRange_oneBased(_, _, _, _)
\* mutant: the matching entries are numbered from 1
dictMatchesRange_oneBased(values, i, minValue, maxValue) ==
    IF i > Len(values) THEN <<>>
    ELSE IF matchRange(values[i], minValue, maxValue)
         THEN <<i>> \o dictMatchesRange_oneBased(values, i + 1, minValue, maxValue)
         ELSE dictMatchesRange_oneBased(values, i + 1, minValue, maxValue)


RECURSIVE dictMatchesRange(_, _, _, _)
\* indices (0-based) of the dictionary entries matching the range, in order
dictMatchesRange(values, i, minValue, maxValue) ==
    IF i > Len(values) THEN <<>>
    ELSE IF matchRange(values[i], minValue, maxValue)
         THEN <<i - 1>> \o dictMatchesRange(values, i + 1, minValue, maxValue)
         ELSE dictMatchesRange(values, i + 1, minValue, maxValue)

matchValuesDictByRange(b, ch, minValue, maxValue) ==
    matchEncodedValuesDict(b, ch, dictMatchesRange(ch.valuesDict, 1, minValue, maxValue))

matchStringByRange(b, ch, minValue, maxValue) ==
    visitValues(b, ch, [v \in SeqRange(ch.values) |-> matchRange(v, minValue, maxValue)])

matchUint8ByRange(b, ch, minValue, maxValue) ==
    LET r == toUint64Range(minValue, maxValue)
    IN  IF FLess(maxValue, F_zero) \/ U64Less(ch.maxValue, r.min) \/ U64Less(r.max, ch.minValue)
        THEN resetBits(b)
        ELSE visitValues(b, ch,
                [v \in SeqRange(ch.values) |-> LET n == ToUint64(<<v[1]>>)
                           IN  U64LessEq(r.min, n) /\ U64LessEq(n, r.max)])

matchUint16ByRange(b, ch, minValue, maxValue) ==
    LET r == toUint64Range(minValue, maxValue)
    IN  IF FLess(maxValue, F_zero) \/ U64Less(ch.maxValue, r.min) \/ U64Less(r.max, ch.minValue)
        THEN resetBits(b)
        ELSE visitValues(b, ch,
                [v \in SeqRange(ch.values) |-> LET n == ToUint64(SubSeq(v, 1, 2))
                           IN  U64LessEq(r.min, n) /\ U64LessEq(n, r.max)])

matchUint32ByRange(b, ch, minValue, maxValue) ==
    LET r == toUint64Range(minValue, maxValue)
    IN  IF FLess(maxValue, F_zero) \/ U64Less(ch.maxValue, r.min) \/ U64Less(r.max, ch.minValue)
        THEN resetBits(b)
        ELSE visitValues(b, ch,
                [v \in SeqRange(ch.values) |-> LET n == ToUint64(SubSeq(v, 1, 4))
                           IN  U64LessEq(r.min, n) /\ U64LessEq(n, r.max)])

matchUint64ByRange(b, ch, minValue, maxValue) ==
    LET r == toUint64Range(minValue, maxValue)
    IN  IF FLess(maxValue, F_zero) \/ U64Less(ch.maxValue, r.min) \/ U64Less(r.max, ch.minValue)
        THEN resetBits(b)
        ELSE visitValues(b, ch,
                [v \in SeqRange(ch.values) |-> LET n == SubSeq(v, 1, 8)
                           IN  U64LessEq(r.min, n) /\ U64LessEq(n, r.max)])

\* mutant: an ipv4 column is left as it is
filterRange_apply_keepIPv4(fr, blk, b) ==
    LET v   == getConstColumnValue(blk.csh.constColumns, fr.fieldName)
        chs == getColumnHeader(blk.csh.columnsHeaders, fr.fieldName)
    IN  IF FLess(fr.maxValue, fr.minValue) THEN resetBits(b)
        ELSE IF v # S_empty THEN
            IF ~matchRange(v, fr.minValue, fr.maxValue) THEN resetBits(b) ELSE b
        ELSE IF Len(chs) = 0 THEN resetBits(b)
        ELSE LET ch == chs[1] IN
            CASE ch.valueType = "string" -> matchStringByRange(b, ch, fr.minValue, fr.maxValue)
              [] ch.valueType = "dict"   -> matchValuesDictByRange(b, ch, fr.minValue, fr.maxValue)
              [] ch.valueType = "uint8"  -> matchUint8ByRange(b, ch, fr.minValue, fr.maxValue)
              [] ch.valueType = "uint16" -> matchUint16ByRange(b, ch, fr.minValue, fr.maxValue)
              [] ch.valueType = "uint32" -> matchUint32ByRange(b, ch, fr.minValue, fr.maxValue)
              [] ch.valueType = "uint64" -> matchUint64ByRange(b, ch, fr.minValue, fr.maxValue)
              [] ch.valueType = "float64" -> matchFloat64ByRange(b, ch, fr.minValue, fr.maxValue)
              [] ch.valueType = "ipv4"   -> b
              [] ch.valueType = "iso8601" -> resetBits(b)


filterRange_apply(fr, blk, b) ==
    LET v   == getConstColumnValue(blk.csh.constColumns, fr.fieldName)
        chs == getColumnHeader(blk.csh.columnsHeaders, fr.fieldName)
    IN  IF FLess(fr.maxValue, fr.minValue) THEN resetBits(b)
        ELSE IF v # S_empty THEN
            IF ~matchRange(v, fr.minValue, fr.maxValue) THEN resetBits(b) ELSE b
        ELSE IF Len(chs) = 0 THEN resetBits(b)
        ELSE LET ch == chs[1] IN
            CASE ch.valueType = "string" -> matchStringByRange(b, ch, fr.minValue, fr.maxValue)
              [] ch.valueType = "dict"   -> matchValuesDictByRange(b, ch, fr.minValue, fr.maxValue)
              [] ch.valueType = "uint8"  -> matchUint8ByRange(b, ch, fr.minValue, fr.maxValue)
              [] ch.valueType = "uint16" -> matchUint16ByRange(b, ch, fr.minValue, fr.maxValue)
              [] ch.valueType = "uint32" -> matchUint32ByRange(b, ch, fr.minValue, fr.maxValue)
              [] ch.valueType = "uint64" -> matchUint64ByRange(b, ch, fr.minValue, fr.maxValue)
              [] ch.valueType = "float64" -> matchFloat64ByRange(b, ch, fr.minValue, fr.maxValue)
              [] ch.valueType = "ipv4"   -> resetBits(b)
              [] ch.valueType = "iso8601" -> resetBits(b)

----------------------------------------------------------------------------
(* filterAnyCasePhrase *)

S_A == <<65>>
S_ab == <<97, 98>>
S_A_b == <<65, 32, 98>>

\* strings.ToLower / stringsutil.AppendLowercase on ASCII bytes
toLower(s) == [k \in 1 .. Len(s) |-> IF s[k] >= 65 /\ s[k] <= 90 THEN s[k] + 32 ELSE s[k]]

\* strings.ToUpper on ASCII bytes
toUpper(s) == [k \in 1 .. Len(s) |-> IF s[k] >= 97 /\ s[k] <= 122 THEN s[k] - 32 ELSE s[k]]

isASCIILowercase(s) == \A k \in 1 .. Len(s) : ~(s[k] >= 128 \/ (s[k] >= 65 /\ s[k] <= 90))

\* letters, digits and the underscore make up tokens
isTokenRune(c) ==
    (c >= 48 /\ c <= 57) \/ (c >= 65 /\ c <= 90) \/ (c >= 97 /\ c <= 122) \/ c = 95

\* phrase occurs in s and is not glued to a token character on a side where it
\* starts or ends with one; the empty phrase matches the empty string only
matchPhrase(s, phrase) ==
    IF Len(phrase) = 0 THEN Len(s) = 0
    ELSE \E pos \in 0 .. (Len(s) - Len(phrase)) :
            /\ SubSeq(s, pos + 1, pos + Len(phrase)) = phrase
            /\ ((isTokenRune(phrase[1]) /\ pos > 0) => ~isTokenRune(s[pos]))
            /\ ((isTokenRune(phrase[Len(phrase)]) /\ pos + Len(phrase) < Len(s))
                    => ~isTokenRune(s[pos + Len(phrase) + 1]))

matchAnyCasePhrase(s, phraseLowercase) ==
    IF Len(phraseLowercase) = 0 THEN Len(s) = 0
    ELSE IF Len(phraseLowercase) > Len(s) THEN FALSE
    ELSE IF isASCIILowercase(s) THEN matchPhrase(s, phraseLowercase)
    ELSE matchPhrase(toLower(s), phraseLowercase)

matchStringByAnyCasePhrase(b, ch, phraseLowercase) ==
    visitValues(b, ch, [v \in SeqRange(ch.values) |-> matchAnyCasePhrase(v, phraseLowercase)])

RECURSIVE dictMatchesAnyCasePhrase(_, _, _)
\* indices (0-based) of the dictionary entries matching the phrase, in order
dictMatchesAnyCasePhrase(values, i, phraseLowercase) ==
    IF i > Len(values) THEN <<>>
    ELSE IF matchAnyCasePhrase(values[i], phraseLowercase)
         THEN <<i - 1>> \o dictMatchesAnyCasePhrase(values, i + 1, phraseLowercase)
         ELSE dictMatchesAnyCasePhrase(values, i + 1, phraseLowercase)

matchValuesDictByAnyCasePhrase(b, ch, phraseLowercase) ==
    matchEncodedValuesDict(b, ch, dictMatchesAnyCasePhrase(ch.valuesDict, 1, phraseLowercase))

\* a row of an unsigned column matches when its decimal form is the phrase; the
\* tokens serve the bloom filter test of the block only, which is not modelled: it
\* rejects no block that holds a matching row
matchUint8ByExactValue(b, ch, phrase, tokens) ==
    visitValues(b, ch, [v \in SeqRange(ch.values) |-> toUint8String(v) = phrase])
matchUint16ByExactValue(b, ch, phrase, tokens) ==
    visitValues(b, ch, [v \in SeqRange(ch.values) |-> toUint16String(v) = phrase])
matchUint32ByExactValue(b, ch, phrase, tokens) ==
    visitValues(b, ch, [v \in SeqRange(ch.values) |-> toUint32String(v) = phrase])
matchUint64ByExactValue(b, ch, phrase, tokens) ==
    visitValues(b, ch, [v \in SeqRange(ch.values) |-> toUint64String(v) = phrase])

\* a row of these columns matches when its canonical string holds the phrase
matchFloat64ByPhrase(b, ch, phrase, tokens) ==
    visitValues(b, ch, [v \in SeqRange(ch.values) |-> matchPhrase(toFloat64StringExt(v), phrase)])
matchIPv4ByPhrase(b, ch, phrase, tokens) ==
    visitValues(b, ch, [v \in SeqRange(ch.values) |-> matchPhrase(toIPv4StringExt(v), phrase)])
matchTimestampISO8601ByPhrase(b, ch, phrase, tokens) ==
    visitValues(b, ch,
        [v \in SeqRange(ch.values) |-> matchPhrase(toTimestampISO8601StringExt(v), phrase)])

\* the value getPhraseLowercase returns once initPhraseLowercase has run
initPhraseLowercase(phrase) == toLower(phrase)

\* mutant: the constant value is compared with the phrase as typed
filterAnyCasePhrase_apply_caseSensitive(fp, blk, b, phraseLowercase, tokens) ==
    LET v   == getConstColumnValue(blk.csh.constColumns, fp.fieldName)
        chs == getColumnHeader(blk.csh.columnsHeaders, fp.fieldName)
    IN  IF v # S_empty THEN
            IF ~matchAnyCasePhrase(v, fp.phrase) THEN resetBits(b) ELSE b
        ELSE IF Len(chs) = 0 THEN
            IF Len(phraseLowercase) > 0 THEN resetBits(b) ELSE b
        ELSE LET ch == chs[1] IN
            CASE ch.valueType = "string" -> matchStringByAnyCasePhrase(b, ch, phraseLowercase)
              [] ch.valueType = "dict"   -> matchValuesDictByAnyCasePhrase(b, ch, phraseLowercase)
              [] ch.valueType = "uint8"  -> matchUint8ByExactValue(b, ch, phraseLowercase, tokens)
              [] ch.valueType = "uint16" -> matchUint16ByExactValue(b, ch, phraseLowercase, tokens)
              [] ch.valueType = "uint32" -> matchUint32ByExactValue(b, ch, phraseLowercase, tokens)
              [] ch.valueType = "uint64" -> matchUint64ByExactValue(b, ch, phraseLowercase, tokens)
              [] ch.valueType = "float64" -> matchFloat64ByPhrase(b, ch, phraseLowercase, tokens)
              [] ch.valueType = "ipv4"   -> matchIPv4ByPhrase(b, ch, phraseLowercase, tokens)
              [] ch.valueType = "iso8601" -> matchTimestampISO8601ByPhrase(b, ch, toUpper(fp.phrase), tokens)

\* apply once the getters have returned: phraseLowercase is what getPhraseLowercase
\* returned, tokens what getTokens returned (not called, and not read, when the
\* field is a const column or has no column)
filterAnyCasePhrase_apply(fp, blk, b, phraseLowercase, tokens) ==
    LET v   == getConstColumnValue(blk.csh.constColumns, fp.fieldName)
        chs == getColumnHeader(blk.csh.columnsHeaders, fp.fieldName)
    IN  IF v # S_empty THEN
            IF ~matchAnyCasePhrase(v, phraseLowercase) THEN resetBits(b) ELSE b
        ELSE IF Len(chs) = 0 THEN
            IF Len(phraseLowercase) > 0 THEN resetBits(b) ELSE b
        ELSE LET ch == chs[1] IN
            CASE ch.valueType = "string" -> matchStringByAnyCasePhrase(b, ch, phraseLowercase)
              [] ch.valueType = "dict"   -> matchValuesDictByAnyCasePhrase(b, ch, phraseLowercase)
              [] ch.valueType = "uint8"  -> matchUint8ByExactValue(b, ch, phraseLowercase, tokens)
              [] ch.valueType = "uint16" -> matchUint16ByExactValue(b, ch, phraseLowercase, tokens)
              [] ch.valueType = "uint32" -> matchUint32ByExactValue(b, ch, phraseLowercase, tokens)
              [] ch.valueType = "uint64" -> matchUint64ByExactValue(b, ch, phraseLowercase, tokens)
              [] ch.valueType = "float64" -> matchFloat64ByPhrase(b, ch, phraseLowercase, tokens)
              [] ch.valueType = "ipv4"   -> matchIPv4ByPhrase(b, ch, phraseLowercase, tokens)
              [] ch.valueType = "iso8601" -> matchTimestampISO8601ByPhrase(b, ch, toUpper(fp.phrase), tokens)

----------------------------------------------------------------------------
(* filterAnyCasePhrase: memoized phraseLowercase and tokens *)

RECURSIVE tokenizeFrom(_, _, _, _)
\* the tokens of s from position i on: maximal runs of token characters, each
\* kept once, in the order of their first occurrence
tokenizeFrom(s, i, cur, acc) ==
    LET flush == IF Len(cur) = 0 \/ (\E k \in 1 .. Len(acc) : acc[k] = cur) THEN acc
                 ELSE Append(acc, cur)
    IN  IF i > Len(s) THEN flush
        ELSE IF isTokenRune(s[i]) THEN tokenizeFrom(s, i + 1, Append(cur, s[i]), acc)
        ELSE tokenizeFrom(s, i + 1, <<>>, flush)

\* tokenizeStrings(nil, []string{s})
tokenizeStrings(s) == tokenizeFrom(s, 1, <<>>, <<>>)

\* the value initTokens stores
initTokens(phrase) == tokenizeStrings(phrase)

\* a sync.Once: the done flag and the mutex (0 when free, else the holder)
NewOnce == [done |-> 0, m |-> 0]

Getters == {"phraseLowercase", "tokens"}

\* the filter as the parser builds it: both Once unused, both memos zero
newFilterAnyCasePhrase(fieldName, phrase) ==
    [fieldName |-> fieldName, phrase |-> phrase,
     once |-> [g \in Getters |-> NewOnce],
     memo |-> [g \in Getters |-> <<>>]]

\* the init function the getter g hands to its Once
initOf(g, phrase) ==
    IF g = "phraseLowercase" THEN initPhraseLowercase(phrase) ELSE initTokens(phrase)

Workers == 1 .. NumWorkers

----------------------------------------------------------------------------
(* filterOr, filterNot *)

\* apply returns [bm, pool, calls]: the caller's bitmap and the pool after the
\* call, and (for filterOr) the record of the branch invocations it made
RECURSIVE apply(_, _, _, _)

RECURSIVE filterOr_loop_setBits(_, _, _, _, _, _, _, _)
\* mutant: bmTmp.setBits() in place of bmTmp.copyFrom(bm)
filterOr_loop_setBits(filters, i, blk, b, bmResult, bmTmp, p, cs) ==
    IF i > Len(filters) THEN [bmResult |-> bmResult, bmTmp |-> bmTmp, pool |-> p, calls |-> cs]
    ELSE LET t1 == setBits(copyFrom(bmTmp, b))
             t2 == andNot(t1, bmResult)
         IN  IF isZero(t2)
             THEN [bmResult |-> bmResult, bmTmp |-> t2, pool |-> p, calls |-> cs]
             ELSE LET r == apply(filters[i], blk, t2, p)
                  IN  filterOr_loop_setBits(filters, i + 1, blk, b, bitmapOr(bmResult, r.bm), r.bm,
                                    r.pool, Append(cs, [idx |-> i, acc |-> bmResult.a, arg |-> t2.a]))

RECURSIVE filterOr_loop_overwrite(_, _, _, _, _, _, _, _)
\* mutant: bmResult.copyFrom(bmTmp) in place of bmResult.or(bmTmp)
filterOr_loop_overwrite(filters, i, blk, b, bmResult, bmTmp, p, cs) ==
    IF i > Len(filters) THEN [bmResult |-> bmResult, bmTmp |-> bmTmp, pool |-> p, calls |-> cs]
    ELSE LET t1 == copyFrom(bmTmp, b)
             t2 == andNot(t1, bmResult)
         IN  IF isZero(t2)
             THEN [bmResult |-> bmResult, bmTmp |-> t2, pool |-> p, calls |-> cs]
             ELSE LET r == apply(filters[i], blk, t2, p)
                  IN  filterOr_loop_overwrite(filters, i + 1, blk, b, copyFrom(bmResult, r.bm), r.bm,
                                    r.pool, Append(cs, [idx |-> i, acc |-> bmResult.a, arg |-> t2.a]))

RECURSIVE filterOr_loop_noBreak(_, _, _, _, _, _, _, _)
\* mutant: the isZero shortcut is missing
filterOr_loop_noBreak(filters, i, blk, b, bmResult, bmTmp, p, cs) ==
    IF i > Len(filters) THEN [bmResult |-> bmResult, bmTmp |-> bmTmp, pool |-> p, calls |-> cs]
    ELSE LET t1 == copyFrom(bmTmp, b)
             t2 == andNot(t1, bmResult)
             r  == apply(filters[i], blk, t2, p)
         IN  filterOr_loop_noBreak(filters, i + 1, blk, b, bitmapOr(bmResult, r.bm), r.bm,
                                   r.pool, Append(cs, [idx |-> i, acc |-> bmResult.a, arg |-> t2.a]))

RECURSIVE filterOr_loop(_, _, _, _, _, _, _, _)
filterOr_loop(filters, i, blk, b, bmResult, bmTmp, p, cs) ==
    IF i > Len(filters) THEN [bmResult |-> bmResult, bmTmp |-> bmTmp, pool |-> p, calls |-> cs]
    ELSE LET t1 == copyFrom(bmTmp, b)
             t2 == andNot(t1, bmResult)
         IN  IF isZero(t2)
             THEN [bmResult |-> bmResult, bmTmp |-> t2, pool |-> p, calls |-> cs]
             ELSE LET r == apply(filters[i], blk, t2, p)
                  IN  filterOr_loop(filters, i + 1, blk, b, bitmapOr(bmResult, r.bm), r.bm, r.pool,
                                    Append(cs, [idx |-> i, acc |-> bmResult.a, arg |-> t2.a]))

\* mutant: the shortcut returns instead of breaking, the bitmaps stay lent out
filterOr_apply_leak(fo, blk, b, p) ==
    LET g1 == getBitmap(p, b.bitsLen)
        g2 == getBitmap(g1.pool, b.bitsLen)
        l  == filterOr_loop(fo.filters, 1, blk, b, g1.bm, g2.bm, g2.pool, <<>>)
        p1 == putBitmap(l.pool, l.bmTmp)
        b1 == copyFrom(b, l.bmResult)
        p2 == putBitmap(p1, l.bmResult)
    IN  IF Len(l.calls) < Len(fo.filters)
        THEN [bm |-> b1, pool |-> l.pool, calls |-> l.calls]
        ELSE [bm |-> b1, pool |-> p2, calls |-> l.calls]

filterOr_apply(fo, blk, b, p) ==
    LET g1 == getBitmap(p, b.bitsLen)
        g2 == getBitmap(g1.pool, b.bitsLen)
        l  == filterOr_loop(fo.filters, 1, blk, b, g1.bm, g2.bm, g2.pool, <<>>)
        p1 == putBitmap(l.pool, l.bmTmp)
        b1 == copyFrom(b, l.bmResult)
        p2 == putBitmap(p1, l.bmResult)
    IN  [bm |-> b1, pool |-> p2, calls |-> l.calls]

\* mutant: bmTmp.copyFrom(bm) is missing, the inner filter sees an empty bitmap
filterNot_apply_noCopy(fn, blk, b, p) ==
    LET g  == getBitmap(p, b.bitsLen)
        r  == apply(fn.filters[1], blk, g.bm, g.pool)
        b1 == andNot(b, r.bm)
        p1 == putBitmap(r.pool, r.bm)
    IN  [bm |-> b1, pool |-> p1, calls |-> <<>>]

\* mutant: bm.andNot(bmTmp) is missing
filterNot_apply_noAndNot(fn, blk, b, p) ==
    LET g  == getBitmap(p, b.bitsLen)
        t1 == copyFrom(g.bm, b)
        r  == apply(fn.filters[1], blk, t1, g.pool)
        p1 == putBitmap(r.pool, r.bm)
    IN  [bm |-> b, pool |-> p1, calls |-> <<>>]

filterNot_apply(fn, blk, b, p) ==
    LET g  == getBitmap(p, b.bitsLen)
        t1 == copyFrom(g.bm, b)
        r  == apply(fn.filters[1], blk, t1, g.pool)
        b1 == andNot(b, r.bm)
        p1 == putBitmap(r.pool, r.bm)
    IN  [bm |-> b1, pool |-> p1, calls |-> <<>>]

apply(f, blk, b, p) ==
    CASE f.type = "or"  -> filterOr_apply(f, blk, b, p)
      [] f.type = "not" -> filterNot_apply(f, blk, b, p)
      [] f.type = "string_range" ->
            [bm |-> filterStringRange_apply(f, blk, b), pool |-> p, calls |-> <<>>]
      [] f.type = "range" ->
            [bm |-> filterRange_apply(f, blk, b), pool |-> p, calls |-> <<>>]
      [] f.type = "i" ->
            [bm |-> filterAnyCasePhrase_apply(f, blk, b, initPhraseLowercase(f.phrase),
                                              initTokens(f.phrase)),
             pool |-> p, calls |-> <<>>]

----------------------------------------------------------------------------
(* count_empty stats processor *)

\* a block result br is [timestamps, cs]: the number of rows and the columns;
\* a column is [name, isConst, isTime, valueType, encodedValues, dictValues]
ConstColumn(name, value) ==
    [name |-> name, isConst |-> TRUE, isTime |-> FALSE, valueType |-> "",
     encodedValues |-> <<value>>, dictValues |-> <<>>]

getColumns(brr) == brr.cs

RECURSIVE findColumn(_, _)
findColumn(cs, columnName) ==
    IF Len(cs) = 0 THEN <<>>
    ELSE IF Head(cs).name = columnName THEN <<Head(cs)>>
    ELSE findColumn(Tail(cs), columnName)

\* a column the block does not have reads as a const column holding ""
getColumnByName(brr, columnName) ==
    LET f == findColumn(getColumns(brr), columnName)
    IN  IF Len(f) = 0 THEN ConstColumn(columnName, S_empty) ELSE f[1]

\* the string value of column c at row rowIdx (0-based)
getValueAtRow(c, brr, rowIdx) ==
    IF c.isConst THEN c.encodedValues[1]
    ELSE IF c.isTime THEN S_ts0
    ELSE CASE c.valueType = "string" -> c.encodedValues[rowIdx + 1]
           [] c.valueType = "dict"   -> c.dictValues[c.encodedValues[rowIdx + 1][1] + 1]
           [] c.valueType = "uint8"  -> toUint8String(c.encodedValues[rowIdx + 1])

getValues(c, brr) == [k \in 1 .. brr.timestamps |-> getValueAtRow(c, brr, k - 1)]

\* slices.Index(values, v), 0-based, -1 when absent
slicesIndex(values, v) ==
    IF \E k \in 1 .. Len(values) : values[k] = v
    THEN (CHOOSE k \in 1 .. Len(values) :
            values[k] = v /\ \A j \in 1 .. (k - 1) : values[j] # v) - 1
    ELSE -1

slicesContains(values, v) == slicesIndex(values, v) >= 0

NumericTypes == {"uint8", "uint16", "uint32", "uint64", "float64", "ipv4", "iso8601"}

RECURSIVE countEmpty_star(_, _, _, _)
\* the loop over br.getColumns() of the count_empty(*) path
countEmpty_star(cs, i, brr, b) ==
    IF i > Len(cs) THEN b
    ELSE LET values == getValues(cs[i], brr)
         IN  countEmpty_star(cs, i + 1, brr,
                forEachSetBit(b, [idx \in Rows(b.bitsLen) |-> values[idx + 1] = S_empty]))

\* the fast path for count_empty(single_column): the increase of rowsCount
countEmpty_single(c, brr) ==
    IF c.isConst THEN (IF c.encodedValues[1] = S_empty THEN brr.timestamps ELSE 0)
    ELSE IF c.isTime THEN 0
    ELSE CASE c.valueType = "string" ->
                Cardinality({k \in 1 .. Len(c.encodedValues) : c.encodedValues[k] = S_empty})
           [] c.valueType = "dict" ->
                LET zeroDictIdx == slicesIndex(c.dictValues, S_empty)
                IN  IF zeroDictIdx < 0 THEN 0
                    ELSE Cardinality({k \in 1 .. Len(c.encodedValues) :
                                        c.encodedValues[k][1] = zeroDictIdx})
           [] c.valueType \in NumericTypes -> 0

RECURSIVE countEmpty_slow(_, _, _, _)
\* the loop over sc.fields of the slow path: the increase of rowsCount
countEmpty_slow(fields, i, brr, b) ==
    IF i > Len(fields) THEN onesCount(b)
    ELSE LET c == getColumnByName(brr, fields[i])
         IN  IF c.isConst THEN
                 (IF c.encodedValues[1] = S_empty THEN brr.timestamps
                  ELSE countEmpty_slow(fields, i + 1, brr, b))
             ELSE IF c.isTime THEN 0
             ELSE CASE c.valueType = "string" ->
                        countEmpty_slow(fields, i + 1, brr,
                            forEachSetBit(b, [k \in Rows(b.bitsLen) |-> c.encodedValues[k + 1] = S_empty]))
                    [] c.valueType = "dict" ->
                        IF ~slicesContains(c.dictValues, S_empty) THEN 0
                        ELSE countEmpty_slow(fields, i + 1, brr,
                                forEachSetBit(b, [k \in Rows(b.bitsLen) |-> c.dictValues[c.encodedValues[k + 1][1] + 1] = S_empty]))
                    [] c.valueType \in NumericTypes -> 0

\* returns [rowsCount, pool, ret]
updateStatsForAllRows(sp, brr, p) ==
    LET fields == sp.sc.fields
    IN  IF sp.sc.containsStar THEN
            LET g == getBitmap(p, brr.timestamps)
                b == countEmpty_star(getColumns(brr), 1, brr, setBits(g.bm))
            IN  [rowsCount |-> sp.rowsCount + onesCount(b), pool |-> putBitmap(g.pool, b), ret |-> 0]
        ELSE IF Len(fields) = 1 THEN
            [rowsCount |-> sp.rowsCount + countEmpty_single(getColumnByName(brr, fields[1]), brr),
             pool |-> p, ret |-> 0]
        ELSE
            \* the deferred putBitmap(bm) runs on every return of the slow path
            LET g == getBitmap(p, brr.timestamps)
                d == countEmpty_slow(fields, 1, brr, setBits(g.bm))
            IN  [rowsCount |-> sp.rowsCount + d, pool |-> putBitmap(g.pool, g.bm), ret |-> 0]

\* returns [rowsCount, ret]
updateStatsForRow(sp, brr, idx) ==
    LET fields == sp.sc.fields
        inc == IF sp.sc.containsStar THEN
                   (IF \E k \in 1 .. Len(getColumns(brr)) :
                            getValueAtRow(getColumns(brr)[k], brr, idx) # S_empty
                    THEN 0 ELSE 1)
               ELSE IF Len(fields) = 1 THEN
                   LET c == getColumnByName(brr, fields[1])
                   IN  IF c.isConst THEN (IF c.encodedValues[1] = S_empty THEN 1 ELSE 0)
                       ELSE IF c.isTime THEN 0
                       ELSE CASE c.valueType = "string" ->
                                    (IF c.encodedValues[idx + 1] = S_empty THEN 1 ELSE 0)
                              [] c.valueType = "dict" ->
                                    (IF c.dictValues[c.encodedValues[idx + 1][1] + 1] = S_empty
                                     THEN 1 ELSE 0)
                              [] c.valueType \in NumericTypes -> 0
               ELSE (IF \E k \in 1 .. Len(fields) :
                            getValueAtRow(getColumnByName(brr, fields[k]), brr, idx) # S_empty
                     THEN 0 ELSE 1)
    IN  [rowsCount |-> sp.rowsCount + inc, ret |-> 0]

parseStatsCountEmpty(fields) ==
    [fields |-> fields, containsStar |-> slicesContains(fields, "*")]

newStatsProcessor(sc) == [sc |-> sc, rowsCount |-> 0]

\* mutant: the count of the source replaces the count of the destination
mergeState_overwrite(sp, sfp) ==
    [scp |-> [sp EXCEPT !.rowsCount = sfp.rowsCount], src |-> sfp]

\* both processors after scp.mergeState(sfp)
mergeState(sp, sfp) ==
    [scp |-> [sp EXCEPT !.rowsCount = sp.rowsCount + sfp.rowsCount], src |-> sfp]

----------------------------------------------------------------------------
(* Inputs *)

\* a filter of the given type with every field empty
Filter(type) ==
    [type |-> type, fieldName |-> "", minValue |-> <<>>, maxValue |-> <<>>, phrase |-> "",
     filters |-> <<>>, orFilters |-> <<>>, values |-> <<>>, stringRepr |-> ""]

StringRange(field, lo, hi) ==
    [Filter("string_range") EXCEPT !.fieldName = field, !.minValue = lo, !.maxValue = hi]
Range(field, lo, hi) ==
    [Filter("range") EXCEPT !.fieldName = field, !.minValue = lo, !.maxValue = hi]
Or(fs) == [Filter("or") EXCEPT !.filters = fs]
Not(f) == [Filter("not") EXCEPT !.filters = <<f>>]
AnyCasePhrase(field, phrase) == [Filter("i") EXCEPT !.fieldName = field, !.phrase = phrase]

NoFilter == Or(<<>>)

\* Time filters

\* an int64 count of nanoseconds is kept as whole seconds and the nanoseconds
\* left, 0 <= ns < 10^9
nsecsPerSecond == 1000000000

Timestamp(sec, nsec) == [s |-> sec, ns |-> nsec]

\* seconds and a nanosecond count of either sign, brought to 0 <= ns < 10^9
Normalize(sec, nsec) ==
    IF nsec >= 0 THEN Timestamp(sec + nsec \div nsecsPerSecond, nsec % nsecsPerSecond)
    ELSE Timestamp(sec - ((-nsec) + nsecsPerSecond - 1) \div nsecsPerSecond,
                   (nsecsPerSecond - ((-nsec) % nsecsPerSecond)) % nsecsPerSecond)

TsAdd(a, b) == Normalize(a.s + b.s, a.ns + b.ns)
TsNeg(a) == Normalize(-a.s, -a.ns)
TsSub(a, b) == TsAdd(a, TsNeg(b))
TsIsNeg(a) == a.s < 0

\* the units of a duration: seconds per unit, or nanoseconds per unit below a second
SecondUnits == [s |-> 1, m |-> 60, h |-> 3600, d |-> 86400, w |-> 604800, y |-> 31536000]
NanoUnits == [ns |-> 1, us |-> 1000, ms |-> 1000000]

\* one number-and-unit part of a duration; the number is kept in tenths
Part(tenths, unit) == [tenths |-> tenths, unit |-> unit]

\* a duration literal: an optional minus sign and its parts
Duration(neg, parts) == [neg |-> neg, parts |-> parts]

partValue(p) ==
    IF p.unit \in DOMAIN NanoUnits
    THEN Normalize(0, (p.tenths * NanoUnits[p.unit]) \div 10)
    ELSE LET t == p.tenths * SecondUnits[p.unit]
         IN  Normalize(t \div 10, (t % 10) * (nsecsPerSecond \div 10))

RECURSIVE sumParts(_)
\* the parts summed left to right
sumParts(parts) ==
    IF parts = <<>> THEN Timestamp(0, 0)
    ELSE TsAdd(partValue(Head(parts)), sumParts(Tail(parts)))

tryParseDuration(d) == IF d.neg THEN TsNeg(sumParts(d.parts)) ELSE sumParts(d.parts)

\* a point in time written down to some unit: its first nanosecond and the
\* length of the unit
Instant(t, unit) == [t |-> t, unit |-> unit]

\* the time specs: a bare duration, a truncated point in time, a range
DurationSpec(d) ==
    [kind |-> "duration", d |-> d, lo |-> Instant(Timestamp(0, 0), Timestamp(0, 0)),
     hi |-> Instant(Timestamp(0, 0), Timestamp(0, 0)), loIncl |-> FALSE, hiIncl |-> FALSE]
InstantSpec(i) ==
    [kind |-> "instant", d |-> Duration(FALSE, <<>>), lo |-> i, hi |-> i, loIncl |-> TRUE, hiIncl |-> FALSE]
RangeSpec(lo, hi, loIncl, hiIncl) ==
    [kind |-> "range", d |-> Duration(FALSE, <<>>), lo |-> lo, hi |-> hi, loIncl |-> loIncl,
     hiIncl |-> hiIncl]

FilterTime(minTimestamp, maxTimestamp) == [minTimestamp |-> minTimestamp, maxTimestamp |-> maxTimestamp]
NoFilterTime == FilterTime(Timestamp(0, 0), Timestamp(0, 0))

\* the last nanosecond of the unit the end of a range is written to
getMatchingEndTime(i) == TsSub(TsAdd(i.t, i.unit), Timestamp(0, 1))

\* _time:<spec>
parseFilterTime(spec, currentTimestamp) ==
    CASE spec.kind = "duration" ->
            LET d == tryParseDuration(spec.d)
            IN  FilterTime(TsSub(currentTimestamp, IF TsIsNeg(d) THEN TsNeg(d) ELSE d), currentTimestamp)
      [] spec.kind = "instant" -> FilterTime(spec.lo.t, getMatchingEndTime(spec.lo))
      [] spec.kind = "range" ->
            FilterTime(IF spec.loIncl THEN spec.lo.t ELSE TsAdd(spec.lo.t, Timestamp(0, 1)),
                       IF spec.hiIncl THEN getMatchingEndTime(spec.hi)
                       ELSE TsSub(spec.hi.t, Timestamp(0, 1)))

\* the text of a _time filter: the spec and the duration after "offset", if any
TimeQuery(spec, hasOffset, offset) == [spec |-> spec, hasOffset |-> hasOffset, offset |-> offset]
NoTimeQuery == TimeQuery(DurationSpec(Duration(FALSE, <<>>)), FALSE, Duration(FALSE, <<>>))

\* mutant: the offset moves the start of the interval only
parseFilterTimeWithOffset_startOnly(q, currentTimestamp) ==
    LET ft == parseFilterTime(q.spec, currentTimestamp)
    IN  IF ~q.hasOffset THEN ft
        ELSE FilterTime(TsSub(ft.minTimestamp, tryParseDuration(q.offset)), ft.maxTimestamp)

\* _time:<spec> offset D
parseFilterTimeWithOffset(q, currentTimestamp) ==
    LET ft == parseFilterTime(q.spec, currentTimestamp)
        offset == tryParseDuration(q.offset)
    IN  IF ~q.hasOffset THEN ft
        ELSE FilterTime(TsSub(ft.minTimestamp, offset), TsSub(ft.maxTimestamp, offset))

\* OpenTelemetry logs ingestion

Formats == {"json", "protobuf"}

NoMetrics == [f \in Formats |-> [requestsTotal |-> 0, ingestedTotal |-> 0, requestsDuration |-> 0]]

\* AnyValue.FormatString of a string value
FormatString(v) == v.StringValue

Field(name, value) == [Name |-> name, Value |-> value]

\* returns [fields, streamFields]
appendAttributesToFields(dst, attributes, useForStream) ==
    [fields |-> dst \o [i \in 1 .. Len(attributes) |->
                            Field(attributes[i].Key, FormatString(attributes[i].Value))],
     streamFields |-> IF useForStream
                      THEN [i \in 1 .. Len(attributes) |-> attributes[i].Key]
                      ELSE <<>>]

\* a call of getStream, or of a function returned by the stream-th call of getStream
StreamCall(fn, stream, streamFields, timestamp, fields) ==
    [fn |-> fn, stream |-> stream, streamFields |-> streamFields, timestamp |-> timestamp,
     fields |-> fields]

\* one iteration of the loop of pushFieldsFromScopeLogs; acc is [wr, calls, count]
pushFieldsFromLogRecord(acc, lr, stream) ==
    LET attrs == appendAttributesToFields(acc.wr.fields, lr.Attributes, FALSE).fields
        sev == IF lr.Severity # <<>> THEN Append(attrs, Field("severity", lr.Severity)) ELSE attrs
        msg == Append(sev, Field("_msg", FormatString(lr.Body)))
    IN  [wr |-> [acc.wr EXCEPT !.fields = msg],
         calls |-> Append(acc.calls,
                          StreamCall("processFn", stream, <<>>, lr.Timestamp,
                                     msg \o acc.wr.baseFields)),
         count |-> acc.count + 1]

RECURSIVE pushFieldsFromLogRecords(_, _, _)
pushFieldsFromLogRecords(acc, records, stream) ==
    IF records = <<>> THEN acc
    ELSE pushFieldsFromLogRecords(pushFieldsFromLogRecord(acc, Head(records), stream),
                                  Tail(records), stream)

pushFieldsFromScopeLogs(acc, sc, stream) == pushFieldsFromLogRecords(acc, sc.LogRecords, stream)

RECURSIVE pushFieldsFromAllScopeLogs(_, _, _)
\* for _, sc := range rl.ScopeLogs
pushFieldsFromAllScopeLogs(acc, scopeLogs, stream) ==
    IF scopeLogs = <<>> THEN acc
    ELSE pushFieldsFromAllScopeLogs(pushFieldsFromScopeLogs(acc, Head(scopeLogs), stream),
                                    Tail(scopeLogs), stream)

\* mutant: pushFn is called before the log records are processed
parseResourceLogs_pushFirst(acc, rl, stream) ==
    LET base == appendAttributesToFields(<<>>, IF rl.Resource.isNil THEN <<>>
                                               ELSE rl.Resource.Attributes, TRUE)
        got == [acc EXCEPT !.wr.baseFields = base.fields,
                           !.calls = Append(Append(@, StreamCall("getStream", stream, base.streamFields, 0, <<>>)),
                                            StreamCall("pushFn", stream, <<>>, 0, <<>>))]
    IN  pushFieldsFromAllScopeLogs(got, rl.ScopeLogs, stream)

\* one iteration of the loop of parseLogsRequest
parseResourceLogs(acc, rl, stream) ==
    LET base == appendAttributesToFields(<<>>, IF rl.Resource.isNil THEN <<>>
                                               ELSE rl.Resource.Attributes, TRUE)
        got == [acc EXCEPT !.wr.baseFields = base.fields,
                           !.calls = Append(@, StreamCall("getStream", stream, base.streamFields, 0, <<>>))]
        pushed == pushFieldsFromAllScopeLogs(got, rl.ScopeLogs, stream)
    IN  [pushed EXCEPT !.calls = Append(@, StreamCall("pushFn", stream, <<>>, 0, <<>>))]

RECURSIVE parseLogsRequest_from(_, _, _)
parseLogsRequest_from(acc, resourceLogs, stream) ==
    IF resourceLogs = <<>> THEN acc
    ELSE parseLogsRequest_from(parseResourceLogs(acc, Head(resourceLogs), stream),
                               Tail(resourceLogs), stream + 1)

\* returns [wr, calls, count]
parseLogsRequest(wr, req) ==
    parseLogsRequest_from([wr |-> wr, calls |-> <<>>, count |-> 0], req.ResourceLogs, 1)

NewWriteLogsContext == [bb |-> <<>>, fields |-> <<>>, baseFields |-> <<>>]

\* mutant: reset leaves the fields in place
writeLogsContext_reset_keepFields(wr) == [bb |-> <<>>, fields |-> wr.fields, baseFields |-> <<>>]

writeLogsContext_reset(wr) == [bb |-> <<>>, fields |-> <<>>, baseFields |-> <<>>]

\* wrLogsPool.Get gives any pooled context or nil; returns the possible [wr, pool, reused]
getWriteLogsContext(wrPool) ==
    {[wr |-> NewWriteLogsContext, pool |-> wrPool, reused |-> FALSE]}
    \cup {[wr |-> wrPool[i],
           pool |-> SubSeq(wrPool, 1, i - 1) \o SubSeq(wrPool, i + 1, Len(wrPool)),
           reused |-> TRUE] : i \in 1 .. Len(wrPool)}

\* returns the pool
putWriteLogsContext(wrPool, wr) == Append(wrPool, writeLogsContext_reset(wr))

\* returns [wr, err]
readAndUnpackLogsRequest(wr, r) ==
    [wr |-> [wr EXCEPT !.bb = r.body], err |-> r.fails \in {"read", "unmarshal"}]

\* mutant: the row counter and the duration histogram are updated on errors too
handleInsert_result_always(m, n, err) ==
    [metrics |-> [m EXCEPT !.ingestedTotal = @ + n], pc |-> "UpdateDuration"]

\* handleInsert after ParseLogsStream returned (n, err): on an error it returns
\* with the metrics as they are; otherwise m.ingestedTotal.Add(n), and
\* m.requestsDuration.UpdateDuration is the next step
handleInsert_result(m, n, err) ==
    IF err THEN [metrics |-> m, pc |-> "returned"]
    ELSE [metrics |-> [m EXCEPT !.ingestedTotal = @ + n], pc |-> "UpdateDuration"]

\* m.requestsDuration.UpdateDuration(startTime): one more observation
requestsDuration_UpdateDuration(m) == [m EXCEPT !.requestsDuration = @ + 1]

\* ipv4_range

\* 2^n
RECURSIVE Pow2(_)
Pow2(n) == IF n = 0 THEN 1 ELSE 2 * Pow2(n - 1)

\* the number of the low 32 - maskBits bits that fall into byte k of the
\* big-endian address, k = 1 .. 4
HostBits(maskBits, k) ==
    LET h == (32 - maskBits) - 8 * (4 - k)
    IN  IF h < 0 THEN 0 ELSE IF h > 8 THEN 8 ELSE h

\* mutant: minValue keeps the host bits of the address
tryParseIPv4Mask_keepHost(ip, maskBits) ==
    IF maskBits > 32 THEN [ok |-> FALSE, minValue |-> <<0, 0, 0, 0>>, maxValue |-> <<0, 0, 0, 0>>]
    ELSE [ok |-> TRUE,
          minValue |-> ip,
          maxValue |-> [k \in 1 .. 4 |-> ip[k] - (ip[k] % Pow2(HostBits(maskBits, k)))
                                          + (Pow2(HostBits(maskBits, k)) - 1)]]

\* a.b.c.d/N: mask = (1 << (32 - N)) - 1, minValue = ip &^ mask, maxValue = ip | mask,
\* byte by byte
tryParseIPv4Mask(ip, maskBits) ==
    IF maskBits > 32 THEN [ok |-> FALSE, minValue |-> <<0, 0, 0, 0>>, maxValue |-> <<0, 0, 0, 0>>]
    ELSE [ok |-> TRUE,
          minValue |-> [k \in 1 .. 4 |-> ip[k] - (ip[k] % Pow2(HostBits(maskBits, k)))],
          maxValue |-> [k \in 1 .. 4 |-> ip[k] - (ip[k] % Pow2(HostBits(maskBits, k)))
                                          + (Pow2(HostBits(maskBits, k)) - 1)]]

----------------------------------------------------------------------------
(* Query strings, the lexer and the parser *)

\* a query string is a string of printable ASCII characters; the lexer, the
\* parser of the filters and the printers work on it character by character;
\* what is not parsed here (pipes, characters and escapes outside the ASCII
\* table below, numbers and times in their rarer forms) gives the result Outside,
\* which is neither a filter nor a parse error

\* the printable ASCII characters but the backquote: from the space (32) to "_" (95)
\* and from "a" (97) to "~" (126)
AsciiTo95 ==
    " !\"#$%&'()*+,-./0123456789:;<=>?@ABCDEFGHIJKLMNOPQRSTUVWXYZ[\\]^_"
AsciiFrom97 == "abcdefghijklmnopqrstuvwxyz{|}~"

Char(s, i) == SubSeq(s, i, i)

\* s[n:]
Rest(s, n) == SubSeq(s, n + 1, Len(s))

\* the code of each of these characters
CodeOf ==
    [c \in {Char(AsciiTo95, i) : i \in 1 .. Len(AsciiTo95)}
           \cup {Char(AsciiFrom97, i) : i \in 1 .. Len(AsciiFrom97)} |->
        IF \E i \in 1 .. Len(AsciiTo95) : Char(AsciiTo95, i) = c
        THEN 31 + CHOOSE i \in 1 .. Len(AsciiTo95) : Char(AsciiTo95, i) = c
        ELSE 96 + CHOOSE i \in 1 .. Len(AsciiFrom97) : Char(AsciiFrom97, i) = c]

\* the i-th character of s as a code; 128 stands for every other character
AsciiChars == DOMAIN CodeOf
RuneAt(s, i) == LET c == Char(s, i) IN IF c \in AsciiChars THEN CodeOf[c] ELSE 128

\* the lower-case letter of each upper-case letter
LowerOf == [c \in {u \in AsciiChars : CodeOf[u] >= 65 /\ CodeOf[u] <= 90} |->
               Char(AsciiFrom97, CodeOf[c] - 64)]
UpperChars == DOMAIN LowerOf

RECURSIVE strings_ToLower(_)
\* strings.ToLower, on the ASCII letters; the halves of s one after the other
strings_ToLower(s) ==
    IF Len(s) = 0 THEN ""
    ELSE IF Len(s) = 1 THEN (IF s \in UpperChars THEN LowerOf[s] ELSE s)
    ELSE strings_ToLower(SubSeq(s, 1, Len(s) \div 2))
            \o strings_ToLower(SubSeq(s, (Len(s) \div 2) + 1, Len(s)))

\* the least number of a set of numbers that is not empty
Min(S) == CHOOSE i \in S : \A j \in S : i <= j

\* the number of backslashes that stand right before the i-th character of s
backslashesBefore(s, i) ==
    Cardinality({j \in 1 .. i - 1 : \A k \in j .. i - 1 : Char(s, k) = "\\"})

\* the i-th character of s is a backslash that starts an escape
isEscapeAt(s, i) == Char(s, i) = "\\" /\ backslashesBefore(s, i) % 2 = 0

strings_HasPrefix(s, prefix) == Len(s) >= Len(prefix) /\ SubSeq(s, 1, Len(prefix)) = prefix

strings_HasSuffix(s, suffix) ==
    Len(s) >= Len(suffix) /\ SubSeq(s, Len(s) - Len(suffix) + 1, Len(s)) = suffix

strings_Contains(s, c) == \E i \in 1 .. Len(s) : Char(s, i) = c

isDigit(c) == c \in {"0", "1", "2", "3", "4", "5", "6", "7", "8", "9"}

\* s is made of decimal digits, one at least
isDigits(s) == Len(s) > 0 /\ \A i \in 1 .. Len(s) : isDigit(Char(s, i))

isLetter(c) == c \in AsciiChars /\ LET r == CodeOf[c] IN (r >= 65 /\ r <= 90) \/ (r >= 97 /\ r <= 122)

RECURSIVE ParseUint(_)
\* the number a string of decimal digits stands for
ParseUint(s) ==
    IF Len(s) = 0 THEN 0
    ELSE 10 * ParseUint(SubSeq(s, 1, Len(s) - 1)) + (CodeOf[Char(s, Len(s))] - 48)

RECURSIVE Itoa(_)
\* the decimal digits of a number
Itoa(n) == IF n < 10 THEN Char("0123456789", n + 1) ELSE Itoa(n \div 10) \o Char("0123456789", (n % 10) + 1)

reservedKeywords ==
    {"", "and", "or", "not", "!", "(", ")", "{", "}", "=", "!=", "=~", "!~", ",", "|", ":", "*",
     "[", "]", "now", "offset", "-",
     "exact", "i", "in", "ipv4_range", "len_range", "range", "re", "seq", "string_range"}

\* token characters, "." and "-" only
isTokenString(s) ==
    \A i \in 1 .. Len(s) : isTokenRune(RuneAt(s, i)) \/ RuneAt(s, i) \in {45, 46}

RECURSIVE Escape(_)
\* a backslash before every double quote and backslash; the halves of s one
\* after the other
Escape(s) ==
    IF Len(s) = 0 THEN ""
    ELSE IF Len(s) = 1 THEN (IF s \in {"\"", "\\"} THEN "\\" \o s ELSE s)
    ELSE Escape(SubSeq(s, 1, Len(s) \div 2)) \o Escape(SubSeq(s, (Len(s) \div 2) + 1, Len(s)))

\* strconv.Quote, on printable ASCII
strconv_Quote(s) == "\"" \o Escape(s) \o "\""

\* a keyword in any case and a string that is not made of token characters are
\* printed in double quotes
quoteTokenIfNeeded(s) ==
    IF ~isTokenString(s) \/ strings_ToLower(s) \in reservedKeywords THEN strconv_Quote(s) ELSE s

RECURSIVE Unescape(_)

\* s cut after its n-th character, and each part without its escapes
Unescape_cut(s, n) == Unescape(SubSeq(s, 1, n)) \o Unescape(Rest(s, n))

\* the character after a backslash stands for itself; s is cut in the middle,
\* and not between a backslash and the character after it
Unescape(s) ==
    IF Len(s) <= 1 THEN s
    ELSE IF Len(s) = 2 THEN (IF Char(s, 1) = "\\" THEN Char(s, 2) ELSE s)
    ELSE Unescape_cut(s, IF isEscapeAt(s, Len(s) \div 2) THEN (Len(s) \div 2) + 1 ELSE Len(s) \div 2)

Phrase(field, phrase) == [Filter("phrase") EXCEPT !.fieldName = field, !.phrase = phrase]

Prefix(field, prefix) == [Filter("prefix") EXCEPT !.fieldName = field, !.phrase = prefix]

Exact(field, value) == [Filter("exact") EXCEPT !.fieldName = field, !.phrase = value]

ExactPrefix(field, prefix) == [Filter("exact_prefix") EXCEPT !.fieldName = field, !.phrase = prefix]

AnyCasePrefix(field, prefix) == [Filter("i_prefix") EXCEPT !.fieldName = field, !.phrase = prefix]

In(field, values) == [Filter("in") EXCEPT !.fieldName = field, !.values = values]

Sequence(field, phrases) == [Filter("seq") EXCEPT !.fieldName = field, !.values = phrases]

Regexp(field, re) == [Filter("re") EXCEPT !.fieldName = field, !.phrase = re]

IPv4Range(field, lo, hi) ==
    [Filter("ipv4_range") EXCEPT !.fieldName = field, !.minValue = lo, !.maxValue = hi]

\* a range and a length range as the parser keeps them for printing; the numbers
\* of their bounds are not modelled here
RangeText(field, stringRepr) ==
    [Filter("range") EXCEPT !.fieldName = field, !.stringRepr = stringRepr]

LenRange(field, stringRepr) ==
    [Filter("len_range") EXCEPT !.fieldName = field, !.stringRepr = stringRepr]

\* a time filter as the parser keeps it for printing; its timestamps are the
\* subject of parseFilterTime below
Time(stringRepr) == [Filter("time") EXCEPT !.stringRepr = stringRepr]

And(fs) == [Filter("and") EXCEPT !.filters = fs]

\* a stream filter: tag filters joined by "," in groups joined by "or"
streamTagFilter(tagName, tagOp, value) == [tagName |-> tagName, op |-> tagOp, value |-> value]

Stream(orFilters) == [Filter("stream") EXCEPT !.orFilters = orFilters]

isMsgFieldName(fieldName) == fieldName = "" \/ fieldName = "_msg"

\* the field name and ":" before a filter; nothing for the message field
quoteFieldNameIfNeeded(s) == IF isMsgFieldName(s) THEN "" ELSE quoteTokenIfNeeded(s) \o ":"

RECURSIVE strings_Join(_, _)
\* strings.Join
strings_Join(a, sep) ==
    IF Len(a) = 0 THEN ""
    ELSE IF Len(a) = 1 THEN a[1]
    ELSE a[1] \o sep \o strings_Join(Tail(a), sep)

\* a.b.c.d
toIPv4String(v) == Itoa(v[1]) \o "." \o Itoa(v[2]) \o "." \o Itoa(v[3]) \o "." \o Itoa(v[4])

RECURSIVE String(_)

\* the operands joined by " or "
filterOr_String(fo) == strings_Join([i \in 1 .. Len(fo.filters) |-> String(fo.filters[i])], " or ")

\* the operand printed, between parentheses when mustParen
filterNot_String_of(s, mustParen) == IF mustParen THEN "!(" \o s \o ")" ELSE "!" \o s

\* mutant: the operand is never put in parentheses
filterNot_String_noParens(fn) == "!" \o String(fn.filters[1])

\* "!" and the operand, an AND or OR operand in parentheses
filterNot_String(fn) ==
    filterNot_String_of(String(fn.filters[1]), fn.filters[1].type \in {"and", "or"})

\* an OR operand of an AND is printed in parentheses
filterAnd_String_of(s, isOr) == IF isOr THEN "(" \o s \o ")" ELSE s

\* the operands joined by a space, an OR operand in parentheses
filterAnd_String(fa) ==
    strings_Join([i \in 1 .. Len(fa.filters) |->
                     filterAnd_String_of(String(fa.filters[i]), fa.filters[i].type = "or")], " ")

filterPhrase_String(fp) == quoteFieldNameIfNeeded(fp.fieldName) \o quoteTokenIfNeeded(fp.phrase)

\* "*" alone for the empty prefix
filterPrefix_String(fp) ==
    IF fp.phrase = "" THEN quoteFieldNameIfNeeded(fp.fieldName) \o "*"
    ELSE quoteFieldNameIfNeeded(fp.fieldName) \o quoteTokenIfNeeded(fp.phrase) \o "*"

filterExact_String(fe) ==
    quoteFieldNameIfNeeded(fe.fieldName) \o "exact(" \o quoteTokenIfNeeded(fe.phrase) \o ")"

filterExactPrefix_String(fep) ==
    quoteFieldNameIfNeeded(fep.fieldName) \o "exact(" \o quoteTokenIfNeeded(fep.phrase) \o "*)"

filterAnyCasePhrase_String(fp) ==
    quoteFieldNameIfNeeded(fp.fieldName) \o "i(" \o quoteTokenIfNeeded(fp.phrase) \o ")"

\* "i(*)" for the empty prefix
filterAnyCasePrefix_String(fp) ==
    IF fp.phrase = "" THEN quoteFieldNameIfNeeded(fp.fieldName) \o "i(*)"
    ELSE quoteFieldNameIfNeeded(fp.fieldName) \o "i(" \o quoteTokenIfNeeded(fp.phrase) \o "*)"

\* the values quoted if needed and joined by ","
quotedValues(values) ==
    strings_Join([i \in 1 .. Len(values) |-> quoteTokenIfNeeded(values[i])], ",")

filterIn_String(fi) == quoteFieldNameIfNeeded(fi.fieldName) \o "in(" \o quotedValues(fi.values) \o ")"

filterSequence_String(fs) ==
    quoteFieldNameIfNeeded(fs.fieldName) \o "seq(" \o quotedValues(fs.values) \o ")"

\* the regular expression is always quoted
filterRegexp_String(fr) == quoteFieldNameIfNeeded(fr.fieldName) \o "re(" \o strconv_Quote(fr.phrase) \o ")"

filterStringRange_String(fr) ==
    quoteFieldNameIfNeeded(fr.fieldName) \o "string_range(" \o quoteTokenIfNeeded(fr.minValue)
        \o ", " \o quoteTokenIfNeeded(fr.maxValue) \o ")"

filterIPv4Range_String(fr) ==
    quoteFieldNameIfNeeded(fr.fieldName) \o "ipv4_range(" \o toIPv4String(fr.minValue)
        \o ", " \o toIPv4String(fr.maxValue) \o ")"

filterRange_String(fr) == quoteFieldNameIfNeeded(fr.fieldName) \o "range" \o fr.stringRepr

filterLenRange_String(fr) == quoteFieldNameIfNeeded(fr.fieldName) \o "len_range" \o fr.stringRepr

filterTime_String(ft) == "_time:" \o ft.stringRepr

\* the tag name quoted if needed, the operator, the value always quoted
streamTagFilter_String(tf) == quoteTokenIfNeeded(tf.tagName) \o tf.op \o strconv_Quote(tf.value)

\* the tag filters joined by ","
andStreamFilter_String(tagFilters) ==
    strings_Join([i \in 1 .. Len(tagFilters) |-> streamTagFilter_String(tagFilters[i])], ",")

\* the groups joined by " or ", in braces
StreamFilter_String(orFilters) ==
    "{" \o strings_Join([i \in 1 .. Len(orFilters) |-> andStreamFilter_String(orFilters[i])], " or ")
        \o "}"

\* what is printed for the stream filter text s: nothing for "{}"
filterStream_String_of(s) == IF s = "{}" THEN "" ELSE "_stream:" \o s

\* "_stream:" and the stream filter; the empty string for the stream filter "{}"
filterStream_String(fs) == filterStream_String_of(StreamFilter_String(fs.orFilters))

String(f) ==
    CASE f.type = "or"     -> filterOr_String(f)
      [] f.type = "not"    -> filterNot_String(f)
      [] f.type = "and"    -> filterAnd_String(f)
      [] f.type = "phrase" -> filterPhrase_String(f)
      [] f.type = "prefix" -> filterPrefix_String(f)
      [] f.type = "exact"  -> filterExact_String(f)
      [] f.type = "exact_prefix" -> filterExactPrefix_String(f)
      [] f.type = "i"      -> filterAnyCasePhrase_String(f)
      [] f.type = "i_prefix" -> filterAnyCasePrefix_String(f)
      [] f.type = "in"     -> filterIn_String(f)
      [] f.type = "seq"    -> filterSequence_String(f)
      [] f.type = "re"     -> filterRegexp_String(f)
      [] f.type = "string_range" -> filterStringRange_String(f)
      [] f.type = "ipv4_range" -> filterIPv4Range_String(f)
      [] f.type = "range"  -> filterRange_String(f)
      [] f.type = "len_range" -> filterLenRange_String(f)
      [] f.type = "time"   -> filterTime_String(f)
      [] f.type = "stream" -> filterStream_String(f)

\* The lexer

\* the text left, the token the lexer stands at without and with its quotes, the
\* token before it, and whether white space stood before the token; unclosed
\* tells that a single quote without its closing quote was met
lexer(s) ==
    [s |-> s, token |-> "", rawToken |-> "", prevToken |-> "", isSkippedSpace |-> FALSE,
     unclosed |-> FALSE]

\* the characters of s from the first one on that are in the set ok: their number
prefixLen(s, ok) ==
    IF \A i \in 1 .. Len(s) : i \in ok THEN Len(s)
    ELSE Min({i \in 1 .. Len(s) : i \notin ok}) - 1

\* the number of spaces s starts with
spacesLen(s) == prefixLen(s, {i \in 1 .. Len(s) : Char(s, i) = " "})

\* the number of token characters and "." s starts with
tokenLen(s) ==
    prefixLen(s, {i \in 1 .. Len(s) : isTokenRune(RuneAt(s, i)) \/ Char(s, i) = "."})

\* the positions in s, after the quote q it starts with, of the quote that
\* closes it
closingQuotes(s, q) == {i \in 2 .. Len(s) : Char(s, i) = q /\ backslashesBefore(s, i) % 2 = 0}

\* the quoted string of n characters holds no escape but \\ and \q
isQuoted(s, q, n) ==
    \A i \in 2 .. n - 1 : isEscapeAt(s, i) => Char(s, i + 1) \in {"\\", q}

\* the length of the quoted string s starts with; 0 when the closing quote q is
\* missing or a backslash stands before another character than a backslash and q
quotedLen(s, q) ==
    IF closingQuotes(s, q) = {} THEN 0
    ELSE IF isQuoted(s, q, Min(closingQuotes(s, q))) THEN Min(closingQuotes(s, q))
    ELSE 0

\* the lexer at the token made of the first n characters of s
lexer_token(lex, s, n, token) ==
    [lex EXCEPT !.s = Rest(s, n), !.token = token, !.rawToken = SubSeq(s, 1, n)]

\* a quoted token of n characters, or the quote alone when n = 0
lexer_quoted(lex, s, n) ==
    IF n > 0 THEN lexer_token(lex, s, n, Unescape(SubSeq(s, 2, n - 1)))
    ELSE [lexer_token(lex, s, 1, Char(s, 1)) EXCEPT !.unclosed = @ \/ Char(s, 1) = "'"]

\* a word of n characters, or an operator or one character when n = 0
lexer_word(lex, s, n) ==
    IF n > 0 THEN lexer_token(lex, s, n, SubSeq(s, 1, n))
    ELSE IF Len(s) >= 2 /\ SubSeq(s, 1, 2) \in {"=~", "!=", "!~"}
         THEN lexer_token(lex, s, 2, SubSeq(s, 1, 2))
    ELSE lexer_token(lex, s, 1, Char(s, 1))

\* the token s starts with; s is not empty and does not start with a space
lexer_at(lex, s) ==
    IF Char(s, 1) \in {"\"", "'"} THEN lexer_quoted(lex, s, quotedLen(s, Char(s, 1)))
    ELSE lexer_word(lex, s, tokenLen(s))

\* the lexer after n spaces are skipped
lexer_skip(lex, n) ==
    IF n >= Len(lex.s)
    THEN [lex EXCEPT !.s = "", !.prevToken = lex.token, !.token = "", !.rawToken = "",
                     !.isSkippedSpace = n > 0]
    ELSE lexer_at([lex EXCEPT !.prevToken = lex.token, !.isSkippedSpace = n > 0], Rest(lex.s, n))

\* lex.nextToken()
nextToken(lex) == lexer_skip(lex, spacesLen(lex.s))

newLexer(s) == nextToken(lexer(s))

isQuotedToken(lex) == lex.token # lex.rawToken

\* the token is one of the keywords, in any case, and is not quoted
isKeyword(lex, keywords) == ~isQuotedToken(lex) /\ strings_ToLower(lex.token) \in keywords

isEnd(lex) == Len(lex.s) = 0 /\ Len(lex.token) = 0 /\ Len(lex.rawToken) = 0

\* lex.mustNextToken(): the lexer is not at the end after nextToken
mustNextToken(lex) == ~isEnd(nextToken(lex))

\* every character is in the ASCII table above, none is "#", and a backslash
\* stands before a backslash or a quote only
InModel(s) ==
    \A i \in 1 .. Len(s) :
        /\ Char(s, i) \in AsciiChars
        /\ Char(s, i) # "#"
        /\ isEscapeAt(s, i) => i < Len(s) /\ Char(s, i + 1) \in {"\\", "\"", "'"}

\* Parse results

\* a parse result: a filter, a string or a list of arguments with the lexer
\* after it, or an error, or Outside for what is not parsed here
ParseError ==
    [ok |-> FALSE, outside |-> FALSE, f |-> NoFilter, str |-> "", quoted |-> FALSE, args |-> <<>>,
     lex |-> lexer("")]
Outside == [ParseError EXCEPT !.outside = TRUE]
Parsed(f, lex) == [ParseError EXCEPT !.ok = TRUE, !.f = f, !.lex = lex]
ParsedString(str, lex) == [ParseError EXCEPT !.ok = TRUE, !.str = str, !.lex = lex]
ParsedArgs(args, lex) == [ParseError EXCEPT !.ok = TRUE, !.args = args, !.lex = lex]

\* the result r when the check gave "ok"; an error or Outside otherwise
Checked(check, r) ==
    IF check = "ok" THEN r ELSE IF check = "outside" THEN Outside ELSE ParseError

\* Compound tokens: tokens that follow each other without white space

StopTokens == {"*", ",", "(", ")", "[", "]", "|", ""}

RECURSIVE getCompoundSuffix_from(_, _, _)
\* the raw tokens after s up to white space or a stop token; quoted tells that
\* a quoted token is among them
getCompoundSuffix_from(lex, stopTokens, r) ==
    IF lex.isSkippedSpace \/ isKeyword(lex, stopTokens) THEN [r EXCEPT !.lex = lex]
    ELSE getCompoundSuffix_from(nextToken(lex), stopTokens,
            [r EXCEPT !.str = @ \o lex.rawToken, !.quoted = @ \/ isQuotedToken(lex)])

getCompoundSuffix(lex, allowColon) ==
    getCompoundSuffix_from(lex, IF allowColon THEN StopTokens ELSE StopTokens \cup {":"},
                           ParsedString("", lex))

\* the token of first alone when no suffix follows it, its raw token and the
\* suffix otherwise
getCompound_join(first, r) ==
    IF r.str = "" THEN ParsedString(first.token, r.lex)
    ELSE ParsedString(first.rawToken \o r.str, r.lex)

getCompoundPhrase(lex, allowColon) ==
    IF isKeyword(lex, StopTokens) THEN ParseError
    ELSE getCompound_join(lex, getCompoundSuffix(nextToken(lex), allowColon))

\* a compound token with a quoted token in it is not followed here
getCompoundToken_join(first, r) ==
    IF r.str = "" THEN ParsedString(first.token, r.lex)
    ELSE IF isQuotedToken(first) \/ r.quoted THEN Outside
    ELSE ParsedString(first.rawToken \o r.str, r.lex)

getCompoundToken(lex) ==
    getCompoundToken_join(lex,
        getCompoundSuffix_from(nextToken(lex), {",", "(", ")", "[", "]", "|", ""},
                               ParsedString("", lex)))

\* the empty argument before "*"
getCompoundFuncArg(lex) ==
    IF isKeyword(lex, {"*"}) THEN ParsedString("", lex)
    ELSE getCompound_join(lex,
            getCompoundSuffix_from(nextToken(lex), {"*", ",", ")", ""}, ParsedString("", lex)))

\* Regular expressions

\* the number of letters, digits and "_" s starts with when "]" follows them and
\* they are one at least: a character class of these characters; 0 otherwise
classLen(s) ==
    IF tokenLen(s) > 0 /\ tokenLen(s) < Len(s) /\ Char(s, tokenLen(s) + 1) = "]"
       /\ ~strings_Contains(SubSeq(s, 1, tokenLen(s)), ".")
    THEN tokenLen(s) ELSE 0

RECURSIVE regexpCheck_from(_, _, _, _)
\* whether regexp.Compile accepts s from its i-th character on: "ok", "error",
\* or "outside" for the syntax not followed here (classes, groups with flags,
\* counted repetitions, escapes, anchors); st tells what stands before the
\* character: nothing that can be repeated ("none"), something that can
\* ("operand"), or a repetition ("repeat"); depth counts the open parentheses
regexpCheck_from(s, i, st, depth) ==
    IF i > Len(s) THEN (IF depth > 0 THEN "error" ELSE "ok")
    ELSE IF Char(s, i) \in {"*", "+", "?"} THEN
        (IF st = "operand"
         THEN (IF i < Len(s) /\ Char(s, i + 1) = "?" THEN regexpCheck_from(s, i + 2, "repeat", depth)
               ELSE regexpCheck_from(s, i + 1, "repeat", depth))
         ELSE "error")
    ELSE IF Char(s, i) = "|" THEN regexpCheck_from(s, i + 1, "none", depth)
    ELSE IF Char(s, i) = "(" THEN
        (IF i < Len(s) /\ Char(s, i + 1) = "?" THEN "outside"
         ELSE regexpCheck_from(s, i + 1, "none", depth + 1))
    ELSE IF Char(s, i) = ")" THEN
        (IF depth = 0 THEN "error" ELSE regexpCheck_from(s, i + 1, "operand", depth - 1))
    ELSE IF Char(s, i) = "[" THEN
        (IF classLen(Rest(s, i)) = 0 THEN "outside"
         ELSE regexpCheck_from(s, i + classLen(Rest(s, i)) + 2, "operand", depth))
    ELSE IF Char(s, i) \in {"]", "{", "}", "\\", "^", "$"} THEN "outside"
    ELSE regexpCheck_from(s, i + 1, "operand", depth)

regexpCheck(s) == regexpCheck_from(s, 1, "none", 0)

\* Numbers, durations and times as the parser accepts them

\* digits, with a fraction or without
isDecimal(s) ==
    \/ isDigits(s)
    \/ \E n \in 2 .. Len(s) - 1 :
          Char(s, n) = "." /\ isDigits(SubSeq(s, 1, n - 1)) /\ isDigits(Rest(s, n))

hasDigit(s) == \E i \in 1 .. Len(s) : isDigit(Char(s, i))

hasLetter(s) == \E i \in 1 .. Len(s) : isLetter(Char(s, i)) \/ Char(s, i) = "_"

\* s without a sign before it
unsigned(s) == IF Len(s) > 0 /\ Char(s, 1) \in {"-", "+"} THEN Rest(s, 1) ELSE s

\* a decimal number and an exponent: "e", a sign or none, and digits
isDecimalExp(s) ==
    \E n \in 2 .. Len(s) - 1 :
        /\ Char(s, n) \in {"e", "E"}
        /\ isDecimal(SubSeq(s, 1, n - 1))
        /\ isDigits(unsigned(Rest(s, n)))

\* digits, a dot and digits that are not all zeros
hasFraction(s) ==
    isDecimal(s) /\ ~isDigits(s) /\ \E i \in 1 .. Len(s) : Char(s, i) \notin {".", "0"}
                                       /\ \A j \in i .. Len(s) : Char(s, j) # "."

\* the bound of a range filter: a decimal number with or without a sign and an
\* exponent, and inf, are numbers; a string without a digit or with a double
\* quote is none; the other forms (bases, size suffixes, nan) are not followed
\* here
float64Check(s) ==
    IF isDecimal(unsigned(s)) \/ isDecimalExp(unsigned(s)) \/ strings_ToLower(unsigned(s)) = "inf"
    THEN "ok"
    ELSE IF ~hasDigit(s) /\ strings_ToLower(unsigned(s)) \notin {"nan", "infinity"} THEN "error"
    ELSE IF strings_Contains(s, "\"") THEN "error"
    ELSE "outside"

\* the bound of a length range: decimal digits and inf are numbers, a string
\* without a digit and a number with a fraction are none
uint64Check(s) ==
    IF (isDigits(s) /\ Len(s) <= 18) \/ strings_ToLower(unsigned(s)) = "inf" THEN "ok"
    ELSE IF hasFraction(s) THEN "error"
    ELSE IF ~hasDigit(s) /\ strings_ToLower(unsigned(s)) \notin {"nan", "infinity"} THEN "error"
    ELSE IF strings_Contains(s, "\"") THEN "error"
    ELSE "outside"

\* the number of digits and dots s starts with
numericLen(s) == prefixLen(s, {i \in 1 .. Len(s) : isDigit(Char(s, i)) \/ Char(s, i) = "."})

\* the unit s starts with, "" when it starts with none of them
durationUnit(s) ==
    IF strings_HasPrefix(s, "ms") THEN "ms"
    ELSE IF strings_HasPrefix(s, "ns") THEN "ns"
    ELSE IF strings_HasPrefix(s, "us") THEN "us"
    ELSE IF Len(s) > 0 /\ Char(s, 1) \in {"s", "m", "h", "d", "w", "y"} THEN Char(s, 1)
    ELSE ""

RECURSIVE durationCheck_from(_, _)

\* one part of a duration: n characters of number and a unit
durationCheck_part(s, n, unit, units) ==
    IF n = 0 \/ n = Len(s) THEN "error"
    ELSE IF unit = "" THEN
        (IF isLetter(Char(s, n + 1)) /\ strings_ToLower(Char(s, n + 1)) \in {"s", "m", "h", "d", "w", "y", "i", "n", "u"}
         THEN "outside" ELSE "error")
    ELSE IF unit \notin units \/ ~isDecimal(SubSeq(s, 1, n)) THEN "outside"
    ELSE IF n + Len(unit) = Len(s) THEN "ok"
    ELSE durationCheck_from(Rest(s, n + Len(unit)), units)

\* numbers with units, one after the other
durationCheck_from(s, units) ==
    durationCheck_part(s, numericLen(s), durationUnit(Rest(s, numericLen(s))), units)

\* whether tryParseDuration accepts s: "ok", "error" or "outside"; a minus sign
\* may stand before the parts
durationCheck(s) ==
    IF Len(s) = 0 THEN "error"
    ELSE IF s = "-" THEN "outside"
    ELSE durationCheck_from(IF Char(s, 1) = "-" THEN Rest(s, 1) ELSE s,
                            {"ns", "ms", "s", "m", "h", "d", "w", "y"})

\* whether promutils.ParseDuration accepts s: a number of seconds, or numbers
\* with units
promDurationCheck(s) ==
    IF Len(s) = 0 \/ s = "-" THEN "error"
    ELSE IF isDigit(Char(s, Len(s))) \/ Char(s, Len(s)) = "."
         THEN (IF isDecimal(unsigned(s)) THEN "ok" ELSE "outside")
    ELSE durationCheck_from(IF Char(s, 1) = "-" THEN Rest(s, 1) ELSE s,
                            {"ms", "s", "m", "h", "d", "w", "y"})

\* s[a:b] is a number of two digits from lo to hi
twoDigits(s, a, lo, hi) ==
    /\ isDigits(SubSeq(s, a, a + 1))
    /\ ParseUint(SubSeq(s, a, a + 1)) >= lo /\ ParseUint(SubSeq(s, a, a + 1)) <= hi

isLeapYear(y) == (y % 4 = 0 /\ y % 100 # 0) \/ y % 400 = 0

daysIn(y, m) ==
    IF m = 2 THEN (IF isLeapYear(y) THEN 29 ELSE 28)
    ELSE IF m \in {4, 6, 9, 11} THEN 30 ELSE 31

\* s has the layout 2006-01-02T15:04:05 cut after n characters, and the month,
\* day, hour, minute and second are in their ranges
isLayout(s, n) ==
    /\ Len(s) = n
    /\ isDigits(SubSeq(s, 1, 4))
    /\ n >= 7 => Char(s, 5) = "-" /\ twoDigits(s, 6, 1, 12)
    /\ n >= 10 => Char(s, 8) = "-"
                    /\ twoDigits(s, 9, 1, daysIn(ParseUint(SubSeq(s, 1, 4)), ParseUint(SubSeq(s, 6, 7))))
    /\ n >= 13 => Char(s, 11) = "T" /\ twoDigits(s, 12, 0, 23)
    /\ n >= 16 => Char(s, 14) = ":" /\ twoDigits(s, 15, 0, 59)
    /\ n >= 19 => Char(s, 17) = ":" /\ twoDigits(s, 18, 0, 59)

\* s ends with a time zone offset -hh:mm or +hh:mm
hasTZOffset(s) ==
    /\ Len(s) > 6
    /\ Char(s, Len(s) - 5) \in {"-", "+"}
    /\ Char(s, Len(s) - 2) = ":"

\* the hour and the minute of the time zone offset are digits
isTZOffset(tz) == isDigits(SubSeq(tz, 2, 3)) /\ isDigits(SubSeq(tz, 5, 6))

strings_TrimSuffix(s, suffix) ==
    IF strings_HasSuffix(s, suffix) THEN SubSeq(s, 1, Len(s) - Len(suffix)) ELSE s

strings_TrimPrefix(s, prefix) == IF strings_HasPrefix(s, prefix) THEN Rest(s, Len(prefix)) ELSE s

\* the number of characters of the fraction of a second s starts with: "." and
\* digits, 0 when it starts with none
fractionLen(s) ==
    IF Len(s) >= 2 /\ Char(s, 1) = "." /\ isDigit(Char(s, 2)) THEN 1 + prefixLen(Rest(s, 1), {i \in 1 .. Len(s) - 1 : isDigit(Char(s, i + 1))})
    ELSE 0

\* the zone of an RFC3339 time: "Z" or a time zone offset; hours and minutes out
\* of their ranges are not followed
zoneCheck(z) ==
    IF z = "Z" THEN "ok"
    ELSE IF Len(z) = 6 /\ Char(z, 1) \in {"+", "-"} /\ Char(z, 4) = ":"
            /\ isDigits(SubSeq(z, 2, 3)) /\ isDigits(SubSeq(z, 5, 6))
         THEN (IF twoDigits(z, 2, 0, 23) /\ twoDigits(z, 5, 0, 59) THEN "ok" ELSE "outside")
    ELSE IF Len(z) > 0 /\ Char(z, 1) \in {".", ","} THEN "outside"
    ELSE "error"

\* time.Parse(time.RFC3339, s): date, "T", time, a fraction of a second or none,
\* and the zone; a string that starts with a date and "T" and goes on otherwise
\* is not followed
rfc3339Check(s) ==
    IF Len(s) >= 19 /\ isLayout(SubSeq(s, 1, 19), 19)
    THEN (IF fractionLen(Rest(s, 19)) > 10 THEN "outside"
          ELSE zoneCheck(Rest(s, 19 + fractionLen(Rest(s, 19)))))
    ELSE IF Len(s) >= 11 /\ isLayout(SubSeq(s, 1, 10), 10) /\ Char(s, 11) = "T" THEN "outside"
    ELSE "error"

\* the timestamp in seconds or milliseconds: a decimal number; other forms of
\* numbers are not followed
timestampCheck(s) ==
    IF isDecimal(s) THEN "ok"
    ELSE IF hasLetter(s) THEN "outside"
    ELSE IF \E i \in 1 .. Len(s) : ~isDigit(Char(s, i)) /\ Char(s, i) \notin {".", "+"} THEN "error"
    ELSE "outside"

\* the checks of ParseTimeAt on s, which is sOrig without its time zone offset
\* and its "Z"
timeCheck_trimmed(sOrig, s) ==
    IF (Len(s) > 0 /\ (RuneAt(s, Len(s)) > 57 \/ Char(s, 1) = "-")) \/ strings_HasPrefix(s, "now")
    THEN promDurationCheck(strings_TrimPrefix(s, "now"))
    ELSE IF Len(s) = 4 THEN (IF isDigits(s) THEN "ok" ELSE "error")
    ELSE IF ~strings_Contains(sOrig, "-") THEN timestampCheck(sOrig)
    ELSE IF Len(s) \in {7, 10, 13, 16, 19} THEN (IF isLayout(s, Len(s)) THEN "ok" ELSE "error")
    ELSE rfc3339Check(sOrig)

\* whether promutils.ParseTimeAt accepts s: "ok", "error" or "outside"
timeCheck(s) ==
    IF s = "now" THEN "ok"
    ELSE IF hasTZOffset(s) THEN
        (IF ~isTZOffset(Rest(s, Len(s) - 6)) THEN "error"
         ELSE timeCheck_trimmed(s, strings_TrimSuffix(SubSeq(s, 1, Len(s) - 6), "Z")))
    ELSE timeCheck_trimmed(s, strings_TrimSuffix(s, "Z"))

\* four digits and then the end, a sign or "Z"
startsWithYear(s) ==
    /\ Len(s) >= 4
    /\ isDigits(SubSeq(s, 1, 4))
    /\ (Len(s) = 4 \/ Char(s, 5) \in {"-", "+", "Z", "z"})

\* Time filters, as text

\* _time:YYYY-MM-DD and the like, or _time:duration; "now" in another case is
\* not followed
parseFilterTime_single(r) ==
    IF ~r.ok THEN r
    ELSE IF strings_ToLower(r.str) = "now" /\ r.str # "now" THEN Outside
    ELSE IF r.str = "now" \/ startsWithYear(r.str)
         THEN Checked(timeCheck(r.str), Parsed(Time(r.str), r.lex))
    ELSE Checked(durationCheck(r.str), Parsed(Time(r.str), r.lex))

\* after the end time: "]" or ")" closes the range
parseFilterTime_end(open, start, r) ==
    IF ~r.ok THEN r
    ELSE Checked(timeCheck(r.str),
            IF isKeyword(r.lex, {"]", ")"})
            THEN Parsed(Time(open \o start \o "," \o r.str \o r.lex.token), nextToken(r.lex))
            ELSE ParseError)

\* after the start time: "," and the end time
parseFilterTime_start(open, r) ==
    IF ~r.ok THEN r
    ELSE Checked(timeCheck(r.str),
            IF ~isKeyword(r.lex, {","}) \/ ~mustNextToken(r.lex) THEN ParseError
            ELSE parseFilterTime_end(open, r.str, getCompoundToken(nextToken(r.lex))))

\* the tokens parseFilterTime reads and the stringRepr it builds; the timestamps
\* it computes are the subject of parseFilterTime below
parseFilterTime_text(lex) ==
    IF isKeyword(lex, {"[", "("}) THEN
        (IF ~mustNextToken(lex) THEN ParseError
         ELSE parseFilterTime_start(lex.token, getCompoundToken(nextToken(lex))))
    ELSE parseFilterTime_single(getCompoundToken(lex))

\* the duration after "offset" is added to stringRepr
parseFilterTimeWithOffset_duration(ft, r) ==
    IF ~r.ok THEN r
    ELSE Checked(durationCheck(r.str), Parsed(Time(ft.stringRepr \o " offset " \o r.str), r.lex))

\* after the time filter: "offset" and a duration may follow
parseFilterTimeWithOffset_next(r) ==
    IF ~r.ok THEN r
    ELSE IF ~isKeyword(r.lex, {"offset"}) THEN r
    ELSE IF ~mustNextToken(r.lex) THEN ParseError
    ELSE parseFilterTimeWithOffset_duration(r.f, getCompoundToken(nextToken(r.lex)))

\* the tokens parseFilterTimeWithOffset reads and the stringRepr it builds
parseFilterTimeWithOffset_text(lex) == parseFilterTimeWithOffset_next(parseFilterTime_text(lex))

\* Stream filters

\* a token stands right after a tag name or a value, with no white space between
\* them, and is none of the tokens of a stream filter: whether it is a part of
\* the name or value is not followed here; after a single quote that is not
\* closed the token is an error
isGlued(lex) ==
    /\ ~lex.isSkippedSpace
    /\ ~lex.unclosed
    /\ ~isKeyword(lex, {"=", "!=", "=~", "!~", ",", "{", "}", ""})

\* the tag filter read, when the regular expression of "=~" and "!~" compiles
parseStreamTagFilter_value(tagName, tagOp, value, lex) ==
    IF ~mustNextToken(lex) THEN ParseError
    ELSE IF isGlued(nextToken(lex)) THEN Outside
    ELSE IF tagOp \in {"=~", "!~"}
         THEN Checked(regexpCheck(value),
                      ParsedArgs(<<streamTagFilter(tagName, tagOp, value)>>, nextToken(lex)))
    ELSE ParsedArgs(<<streamTagFilter(tagName, tagOp, value)>>, nextToken(lex))

\* the operator and the value after the tag name
parseStreamTagFilter_op(tagName, lex) ==
    IF ~isKeyword(lex, {"=", "!=", "=~", "!~"})
    THEN (IF isGlued(lex) THEN Outside ELSE ParseError)
    ELSE IF ~mustNextToken(lex) THEN ParseError
    ELSE parseStreamTagFilter_value(tagName, lex.token, nextToken(lex).token, nextToken(lex))

\* tagName op value, and a token after them
parseStreamTagFilter(lex) ==
    IF ~mustNextToken(lex) THEN ParseError
    ELSE parseStreamTagFilter_op(lex.token, nextToken(lex))

RECURSIVE parseAndStreamFilter(_, _)

\* after a tag filter: "or" or "}" ends the group, "," goes on with it
parseAndStreamFilter_next(r, filters) ==
    IF ~r.ok THEN r
    ELSE IF isKeyword(r.lex, {"or", "}"}) THEN ParsedArgs(filters \o r.args, r.lex)
    ELSE IF isKeyword(r.lex, {","})
         THEN (IF ~mustNextToken(r.lex) THEN ParseError
               ELSE parseAndStreamFilter(nextToken(r.lex), filters \o r.args))
    ELSE ParseError

\* tag filters joined by ",", up to "or" or "}"; a "," may stand before the "}"
parseAndStreamFilter(lex, filters) ==
    IF isKeyword(lex, {"}"}) THEN ParsedArgs(filters, lex)
    ELSE parseAndStreamFilter_next(parseStreamTagFilter(lex), filters)

RECURSIVE parseStreamFilter_from(_, _)

\* after a group: "}" ends the stream filter, "or" goes on with the next group
parseStreamFilter_next(r, filters) ==
    IF ~r.ok THEN r
    ELSE IF isKeyword(r.lex, {"}"}) THEN Parsed(Stream(Append(filters, r.args)), nextToken(r.lex))
    ELSE IF isKeyword(r.lex, {"or"})
         THEN (IF ~mustNextToken(r.lex) \/ isKeyword(nextToken(r.lex), {"}"}) THEN ParseError
               ELSE parseStreamFilter_from(nextToken(r.lex), Append(filters, r.args)))
    ELSE ParseError

\* groups joined by "or", up to "}"
parseStreamFilter_from(lex, filters) ==
    parseStreamFilter_next(parseAndStreamFilter(lex, <<>>), filters)

\* "{", the groups and "}"
parseFilterStream(lex) ==
    IF ~isKeyword(lex, {"{"}) \/ ~mustNextToken(lex) THEN ParseError
    ELSE parseStreamFilter_from(nextToken(lex), <<>>)

\* Filter functions

\* the names of the filter functions
FilterFunctions ==
    {"exact", "i", "in", "ipv4_range", "len_range", "range", "re", "seq", "string_range"}

RECURSIVE parseFuncArgs_from(_, _)

\* after an argument: ")" ends the arguments, "," goes on with them
parseFuncArgs_next(r, args) ==
    IF ~r.ok THEN r
    ELSE IF isKeyword(r.lex, {")"}) THEN ParsedArgs(Append(args, r.str), nextToken(r.lex))
    ELSE IF ~isKeyword(r.lex, {","}) \/ ~mustNextToken(r.lex) THEN ParseError
    ELSE parseFuncArgs_from(nextToken(r.lex), Append(args, r.str))

\* the arguments up to ")"; a "," may stand before the ")"
parseFuncArgs_from(lex, args) ==
    IF isKeyword(lex, {")"}) THEN ParsedArgs(args, nextToken(lex))
    ELSE IF isKeyword(lex, {",", "("}) THEN ParseError
    ELSE parseFuncArgs_next(getCompoundFuncArg(lex), args)

\* the arguments of a function; the lexer stands at "("
parseFuncArgs(lex) ==
    IF ~mustNextToken(lex) THEN ParseError ELSE parseFuncArgs_from(nextToken(lex), <<>>)

\* after "*": ")" must follow
parseFuncArgMaybePrefix_star(arg, lex) ==
    IF ~mustNextToken(lex) \/ ~isKeyword(nextToken(lex), {")"}) THEN ParseError
    ELSE ParsedArgs(<<arg, "*">>, nextToken(nextToken(lex)))

\* after the argument: "*" right after it makes a prefix of it, ")" must follow
parseFuncArgMaybePrefix_next(r) ==
    IF ~r.ok THEN r
    ELSE IF isKeyword(r.lex, {"*"}) /\ ~r.lex.isSkippedSpace
         THEN parseFuncArgMaybePrefix_star(r.str, r.lex)
    ELSE IF ~isKeyword(r.lex, {")"}) THEN ParseError
    ELSE ParsedArgs(<<r.str>>, nextToken(r.lex))

\* the argument of exact() and i(), and "*" when it is a prefix; the lexer
\* stands at "("
parseFuncArgMaybePrefix(lex) ==
    IF ~mustNextToken(lex) THEN ParseError
    ELSE parseFuncArgMaybePrefix_next(getCompoundFuncArg(nextToken(lex)))

\* a.b.c.d, each part a number of one to three digits up to 255
tryParseIPv4_parts(s, n1, n2, n3) ==
    /\ n1 \in 2 .. 4 /\ n2 - n1 \in 2 .. 4 /\ n3 - n2 \in 2 .. 4 /\ Len(s) - n3 \in 1 .. 3
    /\ \A part \in {SubSeq(s, 1, n1 - 1), SubSeq(s, n1 + 1, n2 - 1), SubSeq(s, n2 + 1, n3 - 1),
                    Rest(s, n3)} : isDigits(part) /\ ParseUint(part) <= 255

\* the positions of the dots of s
dots(s) == {i \in 1 .. Len(s) : Char(s, i) = "."}

\* the address s stands for, <<>> when it is none
tryParseIPv4(s) ==
    IF Len(s) < 7 \/ Len(s) > 15 \/ Cardinality(dots(s)) # 3 THEN <<>>
    ELSE LET n1 == CHOOSE i \in dots(s) : \A j \in dots(s) : i <= j
             n3 == CHOOSE i \in dots(s) : \A j \in dots(s) : i >= j
             n2 == CHOOSE i \in dots(s) : i # n1 /\ i # n3
         IN  IF ~tryParseIPv4_parts(s, n1, n2, n3) THEN <<>>
             ELSE <<ParseUint(SubSeq(s, 1, n1 - 1)), ParseUint(SubSeq(s, n1 + 1, n2 - 1)),
                    ParseUint(SubSeq(s, n2 + 1, n3 - 1)), ParseUint(Rest(s, n3))>>

\* the range of a.b.c.d/N
tryParseIPv4CIDR_mask(ip, maskBits) ==
    IF ip = <<>> \/ ~isDigits(maskBits) \/ Len(maskBits) > 18
    THEN [ok |-> FALSE, minValue |-> <<0, 0, 0, 0>>, maxValue |-> <<0, 0, 0, 0>>]
    ELSE tryParseIPv4Mask(ip, IF ParseUint(maskBits) > 32 THEN 33 ELSE ParseUint(maskBits))

\* the range of one address
tryParseIPv4CIDR_one(ip) ==
    [ok |-> ip # <<>>, minValue |-> ip, maxValue |-> ip]

\* an address, or an address, "/" and the number of the bits of the network
tryParseIPv4CIDR(s) ==
    IF ~strings_Contains(s, "/") THEN tryParseIPv4CIDR_one(tryParseIPv4(s))
    ELSE LET n == CHOOSE i \in 1 .. Len(s) : Char(s, i) = "/" /\ \A j \in 1 .. i - 1 : Char(s, j) # "/"
         IN  tryParseIPv4CIDR_mask(tryParseIPv4(SubSeq(s, 1, n - 1)), Rest(s, n))

\* the filter of ipv4_range(cidr)
parseFilterIPv4Range_cidr(fieldName, c, lex) ==
    IF c.ok THEN Parsed(IPv4Range(fieldName, c.minValue, c.maxValue), lex) ELSE ParseError

\* the filter of ipv4_range(min, max)
parseFilterIPv4Range_pair(fieldName, lo, hi, lex) ==
    IF lo = <<>> \/ hi = <<>> THEN ParseError ELSE Parsed(IPv4Range(fieldName, lo, hi), lex)

\* the range filter read after "(" or "[": minValue "," maxValue and ")" or "]"
parseFilterRange_max(fieldName, open, minValue, r) ==
    IF ~r.ok THEN r
    ELSE Checked(float64Check(r.str),
            IF ~isKeyword(r.lex, {")", "]"}) THEN ParseError
            ELSE Parsed(RangeText(fieldName, open \o minValue \o ", " \o r.str \o r.lex.token),
                        nextToken(r.lex)))

parseFilterRange_min(fieldName, open, r) ==
    IF ~r.ok THEN r
    ELSE Checked(float64Check(r.str),
            IF ~isKeyword(r.lex, {","}) \/ ~mustNextToken(r.lex) THEN ParseError
            ELSE parseFilterRange_max(fieldName, open, r.str, getCompoundToken(nextToken(r.lex))))

\* range(min, max), with "[" and "]" for the bounds that are in the range; the
\* lexer stands at "(" or "["
parseFilterRange(lex, fieldName) ==
    IF ~mustNextToken(lex) THEN ParseError
    ELSE parseFilterRange_min(fieldName, lex.token, getCompoundToken(nextToken(lex)))

\* the check of both bounds: the first that fails decides
bothChecks(c1, c2) == IF c1 # "ok" THEN c1 ELSE c2

\* the filter a function makes of its arguments
parseFilterFunc_next(name, fieldName, r) ==
    IF ~r.ok THEN r
    ELSE CASE name = "exact" ->
                Parsed(IF Len(r.args) = 2 THEN ExactPrefix(fieldName, r.args[1])
                       ELSE Exact(fieldName, r.args[1]), r.lex)
           [] name = "i" ->
                Parsed(IF Len(r.args) = 2 THEN AnyCasePrefix(fieldName, r.args[1])
                       ELSE AnyCasePhrase(fieldName, r.args[1]), r.lex)
           [] name = "in" -> Parsed(In(fieldName, r.args), r.lex)
           [] name = "seq" -> Parsed(Sequence(fieldName, r.args), r.lex)
           [] name = "re" ->
                IF Len(r.args) # 1 THEN ParseError
                ELSE Checked(regexpCheck(r.args[1]), Parsed(Regexp(fieldName, r.args[1]), r.lex))
           [] name = "string_range" ->
                IF Len(r.args) # 2 THEN ParseError
                ELSE Parsed(StringRange(fieldName, r.args[1], r.args[2]), r.lex)
           [] name = "ipv4_range" ->
                IF Len(r.args) = 1
                THEN parseFilterIPv4Range_cidr(fieldName, tryParseIPv4CIDR(r.args[1]), r.lex)
                ELSE IF Len(r.args) # 2 THEN ParseError
                ELSE parseFilterIPv4Range_pair(fieldName, tryParseIPv4(r.args[1]),
                                               tryParseIPv4(r.args[2]), r.lex)
           [] name = "len_range" ->
                IF Len(r.args) # 2 THEN ParseError
                ELSE Checked(bothChecks(uint64Check(r.args[1]), uint64Check(r.args[2])),
                             Parsed(LenRange(fieldName, "(" \o r.args[1] \o ", " \o r.args[2] \o ")"),
                                    r.lex))

\* a call of a filter function; the lexer stands at "(", or at "[" for range
parseFilterFunc(name, lex, fieldName) ==
    IF name = "range" THEN parseFilterRange(lex, fieldName)
    ELSE parseFilterFunc_next(name, fieldName,
            IF name \in {"exact", "i"} THEN parseFuncArgMaybePrefix(lex) ELSE parseFuncArgs(lex))

\* the token is the name of a filter function and "(" follows it, or "[" after
\* range
isFuncCall(lex) ==
    /\ isKeyword(lex, FilterFunctions)
    /\ \/ isKeyword(nextToken(lex), {"("})
       \/ isKeyword(lex, {"range"}) /\ isKeyword(nextToken(lex), {"["})

\* Filters

RECURSIVE parseFilterOr(_, _, _)
RECURSIVE parseFilterAnd(_, _, _)
RECURSIVE parseGenericFilter(_, _)

\* the phrase is a field name when no field name is set and ":" follows it, and a
\* search phrase otherwise, a prefix when "*" stands right after it; the field
\* _time takes a time filter and the field _stream a stream filter
parseFilterForPhrase(lex, phrase, fieldName) ==
    IF fieldName # "" \/ ~isKeyword(lex, {":"}) THEN
        (IF isKeyword(lex, {"*"}) /\ ~lex.isSkippedSpace
         THEN Parsed(Prefix(fieldName, phrase), nextToken(lex))
         ELSE Parsed(Phrase(fieldName, phrase), lex))
    ELSE IF ~mustNextToken(lex) THEN ParseError
    ELSE IF phrase = "_time" THEN parseFilterTimeWithOffset_text(nextToken(lex))
    ELSE IF phrase = "_stream" THEN parseFilterStream(nextToken(lex))
    ELSE parseGenericFilter(nextToken(lex), phrase)

\* after the compound phrase
parseGenericFilter_phrase(r, fieldName) ==
    IF ~r.ok THEN r ELSE parseFilterForPhrase(r.lex, r.str, fieldName)

\* after the filters in parentheses: ")" must follow
parseParensFilter_next(r) ==
    IF ~r.ok THEN r
    ELSE IF isKeyword(r.lex, {")"}) THEN Parsed(r.f, nextToken(r.lex))
    ELSE ParseError

\* "(", filters and ")"
parseParensFilter(lex, fieldName) ==
    IF ~mustNextToken(lex) THEN ParseError
    ELSE parseParensFilter_next(parseFilterOr(nextToken(lex), fieldName, <<>>))

\* the negation of a negation is the filter itself
parseNotFilter_next(r) ==
    IF ~r.ok THEN r
    ELSE IF r.f.type = "not" THEN Parsed(r.f.filters[1], r.lex)
    ELSE Parsed(Not(r.f), r.lex)

\* "not" or "!" and a filter
parseNotFilter(lex, fieldName) ==
    IF ~mustNextToken(lex) THEN ParseError
    ELSE parseNotFilter_next(parseGenericFilter(nextToken(lex), fieldName))

\* the tokens "(" may follow without white space
ParensPrevTokens == {"", ":", "(", "!", "not"}

\* an atom: a filter after ":", the prefix filter "*", a group in parentheses, a
\* negation, a call of a filter function, or a phrase; "(" right after a word is
\* an error, and so are a quote that is not closed and the punctuation no filter
\* starts with
parseGenericFilter(lex, fieldName) ==
    IF isKeyword(lex, {":"}) THEN
        (IF ~mustNextToken(lex) THEN ParseError ELSE parseGenericFilter(nextToken(lex), fieldName))
    ELSE IF isKeyword(lex, {"*"}) THEN Parsed(Prefix(fieldName, ""), nextToken(lex))
    ELSE IF isKeyword(lex, {"("}) THEN
        (IF ~lex.isSkippedSpace /\ lex.prevToken \notin ParensPrevTokens
         THEN (IF strings_ToLower(lex.prevToken) \in ParensPrevTokens THEN Outside ELSE ParseError)
         ELSE parseParensFilter(lex, fieldName))
    ELSE IF isKeyword(lex, {"not", "!"}) THEN parseNotFilter(lex, fieldName)
    ELSE IF isFuncCall(lex)
         THEN parseFilterFunc(strings_ToLower(lex.token), nextToken(lex), fieldName)
    ELSE IF isKeyword(lex, {"\"", "'"}) THEN ParseError
    ELSE IF isKeyword(lex, {",", ")", "[", "]"}) THEN ParseError
    ELSE parseGenericFilter_phrase(getCompoundPhrase(lex, fieldName # ""), fieldName)

\* the filters read so far as one filter
AndOf(fs) == IF Len(fs) = 1 THEN fs[1] ELSE And(fs)
OrOf(fs) == IF Len(fs) = 1 THEN fs[1] ELSE Or(fs)

\* after an atom: "or", "|", ")" or the end ends the AND group, "and" or the next
\* atom goes on with it
parseFilterAnd_next(r, fieldName, filters) ==
    IF ~r.ok THEN r
    ELSE IF isKeyword(r.lex, {"or", "|", ")", ""})
         THEN Parsed(AndOf(Append(filters, r.f)), r.lex)
    ELSE IF isKeyword(r.lex, {"and"})
         THEN (IF ~mustNextToken(r.lex) THEN ParseError
               ELSE parseFilterAnd(nextToken(r.lex), fieldName, Append(filters, r.f)))
    ELSE parseFilterAnd(r.lex, fieldName, Append(filters, r.f))

\* atoms joined by "and" or standing side by side
parseFilterAnd(lex, fieldName, filters) ==
    parseFilterAnd_next(parseGenericFilter(lex, fieldName), fieldName, filters)

\* after an AND group: "|", ")" or the end ends the filter, "or" goes on with it
parseFilterOr_next(r, fieldName, filters) ==
    IF ~r.ok THEN r
    ELSE IF isKeyword(r.lex, {"|", ")", ""})
         THEN Parsed(OrOf(Append(filters, r.f)), r.lex)
    ELSE IF ~mustNextToken(r.lex) THEN ParseError
    ELSE parseFilterOr(nextToken(r.lex), fieldName, Append(filters, r.f))

\* AND groups joined by "or"
parseFilterOr(lex, fieldName, filters) ==
    parseFilterOr_next(parseFilterAnd(lex, fieldName, <<>>), fieldName, filters)

\* the names of the pipes
PipeNames ==
    {"fields", "copy", "cp", "rename", "mv", "delete", "del", "rm", "limit", "head", "offset",
     "skip", "stats", "sort", "uniq"}

\* "|" and the name of a pipe; the pipes themselves are not parsed here
parsePipes(lex) ==
    IF ~mustNextToken(lex) THEN ParseError
    ELSE IF ~isKeyword(nextToken(lex), PipeNames) THEN ParseError
    ELSE Outside

\* after the filter: pipes may follow, nothing else may be left, and a query
\* with a single quote that is not closed is not followed
ParseQuery_end(r) ==
    IF ~r.ok THEN r
    ELSE IF isKeyword(r.lex, {"|"}) THEN parsePipes(r.lex)
    ELSE IF ~isEnd(r.lex) THEN ParseError
    ELSE IF r.lex.unclosed THEN Outside
    ELSE r

\* the query must start with a filter
ParseQuery_filter(lex) ==
    IF isKeyword(lex, {"|", ""}) THEN ParseError
    ELSE ParseQuery_end(parseFilterOr(lex, "", <<>>))

\* the whole query string must be one filter
ParseQuery(s) == IF ~InModel(s) THEN Outside ELSE ParseQuery_filter(newLexer(s))

\* fieldsSet

S_star == <<42>>

newFieldsSet == {}

fieldsSet_reset(fs) == {}

RECURSIVE sortStrings(_)
\* sort.Strings: the strings in increasing byte order
sortStrings(S) ==
    IF S = {} THEN <<>>
    ELSE LET m == CHOOSE x \in S : \A y \in S \ {x} : StrLess(x, y)
         IN  <<m>> \o sortStrings(S \ {m})

fieldsSet_getAll(fs) == sortStrings(fs)

fieldsSet_contains(fs, field) == field \in fs \/ S_star \in fs

\* mutant: remove("*") deletes the key "*" only
fieldsSet_remove_starOnly(fs, field) ==
    IF field = S_star THEN fs \ {S_star}
    ELSE IF ~fieldsSet_contains(fs, S_star) THEN fs \ {field}
    ELSE fs


fieldsSet_remove(fs, field) ==
    IF field = S_star THEN fieldsSet_reset(fs)
    ELSE IF ~fieldsSet_contains(fs, S_star) THEN fs \ {field}
    ELSE fs

RECURSIVE fieldsSet_removeAll(_, _)
fieldsSet_removeAll(fs, fields) ==
    IF fields = <<>> THEN fs
    ELSE fieldsSet_removeAll(fieldsSet_remove(fs, Head(fields)), Tail(fields))

\* mutant: add does not look for "*" in the set
fieldsSet_add_unguarded(fs, field) ==
    IF field = S_star THEN {S_star} ELSE fs \cup {field}

fieldsSet_add(fs, field) ==
    IF fieldsSet_contains(fs, S_star) THEN fs
    ELSE IF field = S_star THEN fieldsSet_reset(fs) \cup {S_star}
    ELSE fs \cup {field}

RECURSIVE fieldsSet_addAll(_, _)
fieldsSet_addAll(fs, fields) ==
    IF fields = <<>> THEN fs
    ELSE fieldsSet_addAll(fieldsSet_add(fs, Head(fields)), Tail(fields))

\* needed columns of a STATS pipe

statsCountEmpty_neededFields(sc) == sc.fields

RECURSIVE addNeededByFields(_, _, _, _, _)
\* the loop over byFields, at the by fields still to visit: a by field the later
\* pipes need makes all the by fields needed
addNeededByFields(fs, byFields, toVisit, neededFieldsOrig, unneededFields) ==
    IF toVisit = <<>> THEN fs
    ELSE addNeededByFields(
             IF fieldsSet_contains(neededFieldsOrig, Head(toVisit))
                /\ ~fieldsSet_contains(unneededFields, Head(toVisit))
             THEN fieldsSet_addAll(fs, byFields) ELSE fs,
             byFields, Tail(toVisit), neededFieldsOrig, unneededFields)

RECURSIVE addNeededFuncFields_all(_, _, _, _, _)
\* mutant: every aggregator contributes, whether its result is needed or not
addNeededFuncFields_all(fs, byFields, funcs, neededFieldsOrig, unneededFields) ==
    IF funcs = <<>> THEN fs
    ELSE addNeededFuncFields_all(
             fieldsSet_addAll(fieldsSet_addAll(fs, byFields),
                              statsCountEmpty_neededFields(Head(funcs))),
             byFields, Tail(funcs), neededFieldsOrig, unneededFields)

RECURSIVE addNeededFuncFields(_, _, _, _, _)
\* the loop over resultNames: an aggregator whose result the later pipes need adds
\* the by fields and its own fields
addNeededFuncFields(fs, byFields, funcs, neededFieldsOrig, unneededFields) ==
    IF funcs = <<>> THEN fs
    ELSE addNeededFuncFields(
             IF fieldsSet_contains(neededFieldsOrig, Head(funcs).resultName)
                /\ ~fieldsSet_contains(unneededFields, Head(funcs).resultName)
             THEN fieldsSet_addAll(fieldsSet_addAll(fs, byFields),
                                   statsCountEmpty_neededFields(Head(funcs)))
             ELSE fs,
             byFields, Tail(funcs), neededFieldsOrig, unneededFields)

\* returns [neededFields, unneededFields]
pipeStats_updateNeededFields(ps, neededFields, unneededFields) ==
    [neededFields |->
         addNeededFuncFields(
             addNeededByFields(fieldsSet_reset(neededFields), ps.byFields, ps.byFields,
                               neededFields, unneededFields),
             ps.byFields, ps.funcs, neededFields, unneededFields),
     unneededFields |-> fieldsSet_reset(unneededFields)]

\* a call on the set: the method and the fields handed to it
Call(fn, fields) == [fn |-> fn, fields |-> fields]
NoCall == Call("", <<>>)

Bitmaps == { [id |-> 0, bitsLen |-> NumRows, a |-> s, ops |-> <<>>] : s \in SUBSET Rows(NumRows) }

EmptyPool == [got |-> 0, put |-> <<>>]
\* an empty pool, and a pool with one bitmap lent out earlier
Pools == { EmptyPool, [got |-> 1, put |-> <<>>] }

\* the encoded values the columns of the model hold, by value type
TypedValues(t) ==
    CASE t = "string"  -> {S_empty, S_a, S_90}
      [] t = "dict"    -> {<<0>>, <<1>>, <<2>>}
      [] t = "uint8"   -> {<<0>>, <<90>>, <<255>>}
      [] t = "uint16"  -> {<<0, 9>>, <<3, 132>>, <<255, 255>>}
      [] t = "uint32"  -> {<<0, 0, 0, 9>>, <<0, 1, 95, 144>>, <<255, 255, 255, 255>>}
      [] t = "uint64"  -> {Zeros(8), <<128, 0, 0, 0, 0, 0, 0, 1>>, MaxUint64}
      [] t = "float64" -> {<<63, 248, 0, 0, 0, 0, 0, 0>>, <<191, 240, 0, 0, 0, 0, 0, 0>>,
                           <<64, 86, 128, 0, 0, 0, 0, 0>>, <<127, 240, 0, 0, 0, 0, 0, 0>>}
      [] t = "ipv4"    -> {<<9, 0, 0, 1>>, <<90, 1, 2, 3>>, <<127, 0, 0, 1>>}
      [] t = "iso8601" -> {Zeros(8), <<23, 71, 211, 236, 198, 252, 212, 192>>}

ValuesDict(t) == IF t = "dict" THEN <<S_empty, S_a, S_90>> ELSE <<>>

\* the header keeps the smallest and the largest stored value of a numeric column
HeaderMin(t, vals) ==
    CASE t \in {"string", "dict"} -> Zeros(8)
      [] t = "float64" ->
            CHOOSE v \in SeqRange(vals) :
                \A w \in SeqRange(vals) : FLessEq(Float64frombits(v), Float64frombits(w))
      [] OTHER ->
            CHOOSE v \in {ToUint64(x) : x \in SeqRange(vals)} :
                \A w \in SeqRange(vals) : U64LessEq(v, ToUint64(w))

HeaderMax(t, vals) ==
    CASE t \in {"string", "dict"} -> Zeros(8)
      [] t = "float64" ->
            CHOOSE v \in SeqRange(vals) :
                \A w \in SeqRange(vals) : FLessEq(Float64frombits(w), Float64frombits(v))
      [] OTHER ->
            CHOOSE v \in {ToUint64(x) : x \in SeqRange(vals)} :
                \A w \in SeqRange(vals) : U64LessEq(ToUint64(w), v)

ColumnHeader(name, t, dict, vals) ==
    [name |-> name, valueType |-> t, minValue |-> HeaderMin(t, vals), maxValue |-> HeaderMax(t, vals),
     valuesDict |-> dict, values |-> vals]

Block(constColumns, columnsHeaders) ==
    [rowsCount |-> NumRows, csh |-> [constColumns |-> constColumns, columnsHeaders |-> columnsHeaders]]

ColumnBlocks(t) ==
    { Block(<<>>, <<ColumnHeader("foo", t, ValuesDict(t), vals)>>) :
        vals \in [1 .. NumRows -> TypedValues(t)] }

\* a dictionary without a matching entry for most filters
OtherDictBlock == Block(<<>>, <<ColumnHeader("foo", "dict", <<S_b>>, [k \in 1 .. NumRows |-> <<0>>])>>)

ConstBlocks == { Block(<<[name |-> "foo", value |-> v]>>, <<>>) : v \in {S_a, S_90} }

AbsentBlock == Block(<<>>, <<>>)

UintTypes == {"uint8", "uint16", "uint32", "uint64"}

AllBlocks ==
    UNION { ColumnBlocks(t) : t \in {"string", "dict"} \cup NumericTypes }
    \cup ConstBlocks \cup {AbsentBlock, OtherDictBlock}

StrBounds == {S_empty, S_plus, S_0, S_9, S_90, S_99, S_a, S_b}

StringRangeFilters == { StringRange("foo", lo, hi) : lo \in StrBounds, hi \in StrBounds }

\* -Inf, -1, -0.5, 0.5, 1, 90.5, 255, 65536, 2^64-2048, 2^64, 2^65
FBounds ==
    { FInf(TRUE), Flt(TRUE, Int9(<<1>>), FALSE), Flt(TRUE, Zeros(9), TRUE),
      Flt(FALSE, Zeros(9), TRUE), Flt(FALSE, Int9(<<1>>), FALSE), Flt(FALSE, Int9(<<90>>), TRUE),
      Flt(FALSE, Int9(<<255>>), FALSE), Flt(FALSE, Int9(<<1, 0, 0>>), FALSE),
      Flt(FALSE, <<0, 255, 255, 255, 255, 255, 255, 248, 0>>, FALSE),
      F_2p64, Flt(FALSE, <<2>> \o Zeros(8), FALSE) }

RangeFilters == { Range("foo", lo, hi) : lo \in FBounds, hi \in FBounds }

Phrases == {S_empty, S_a, S_A, S_b, S_90}

AnyCasePhraseFilters == { AnyCasePhrase("foo", phrase) : phrase \in Phrases }

\* constant values with an upper-case letter and with the phrase inside a word
PhraseBlocks ==
    AllBlocks \cup { Block(<<[name |-> "foo", value |-> v]>>, <<>>) : v \in {S_A_b, S_ab} }

\* the leaves of the OR / NOT trees
Leaves ==
    { StringRange("foo", S_a, S_b), StringRange("foo", S_b, S_c),
      StringRange("foo", S_a, S_c), StringRange("bar", S_empty, S_a) }

TreeBlocks ==
    { Block(<<>>, <<ColumnHeader("foo", "string", <<>>, vals)>>) :
        vals \in [1 .. NumRows -> {S_a, S_b}] }
    \cup { Block(<<[name |-> "foo", value |-> S_a]>>, <<>>) }

OrFilters ==
    { Or(<<>>) }
    \cup { Or(<<x>>) : x \in Leaves }
    \cup { Or(<<x, y>>) : x \in Leaves, y \in Leaves }
    \cup { Or(<<x, y, z>>) : x \in Leaves, y \in Leaves, z \in Leaves }
    \cup { Or(<<Or(<<x, y>>), z>>) : x \in Leaves, y \in Leaves, z \in Leaves }
    \cup { Or(<<x, Or(<<y, z>>)>>) : x \in Leaves, y \in Leaves, z \in Leaves }
    \cup { Or(<<Not(x), y>>) : x \in Leaves, y \in Leaves }
    \cup { Or(<<x, Not(y)>>) : x \in Leaves, y \in Leaves }

NotFilters ==
    { Not(x) : x \in Leaves }
    \cup { Not(Not(x)) : x \in Leaves }
    \cup { Not(Or(<<>>)) }
    \cup { Not(Or(<<x, y>>)) : x \in Leaves, y \in Leaves }
    \cup { Not(Not(Or(<<x, y>>))) : x \in Leaves, y \in Leaves }

\* the columns of a block result, by field name
ResultColumns(name) ==
    { ConstColumn(name, v) : v \in {S_empty, S_a} }
    \cup { [name |-> name, isConst |-> FALSE, isTime |-> TRUE, valueType |-> "",
            encodedValues |-> <<>>, dictValues |-> <<>>] }
    \cup { [name |-> name, isConst |-> FALSE, isTime |-> FALSE, valueType |-> "string",
            encodedValues |-> vals, dictValues |-> <<>>] :
            vals \in [1 .. NumRows -> {S_empty, S_a}] }
    \cup { [name |-> name, isConst |-> FALSE, isTime |-> FALSE, valueType |-> "dict",
            encodedValues |-> vals, dictValues |-> <<S_a, S_empty>>] :
            vals \in [1 .. NumRows -> {<<0>>, <<1>>}] }
    \cup { [name |-> name, isConst |-> FALSE, isTime |-> FALSE, valueType |-> "dict",
            encodedValues |-> [k \in 1 .. NumRows |-> <<0>>], dictValues |-> <<S_a>>] }
    \cup { [name |-> name, isConst |-> FALSE, isTime |-> FALSE, valueType |-> "uint8",
            encodedValues |-> [k \in 1 .. NumRows |-> <<90>>], dictValues |-> <<>>] }

BlockResults ==
    { [timestamps |-> NumRows, cs |-> <<c1, c2>>] :
        c1 \in ResultColumns("foo"), c2 \in ResultColumns("bar") }

FieldLists ==
    { <<"foo">>, <<"bar">>, <<"baz">>, <<"*">>, <<"foo", "bar">>, <<"bar", "foo">>,
      <<"foo", "baz">>, <<"baz", "foo">>, <<"foo", "bar", "baz">> }

\* the counts the workers have accumulated before merging
RowsCounts == {0, 1, 2, 5}

Processors ==
    { [newStatsProcessor(parseStatsCountEmpty(<<"foo">>)) EXCEPT !.rowsCount = n] : n \in RowsCounts }

\* the phrases of the shared filter
OncePhrases == {S_A_b, S_a, S_A, S_90}

NoBlock == AbsentBlock
NoBlockResult == [timestamps |-> 0, cs |-> <<>>]
NoBitmap == [id |-> 0, bitsLen |-> 0, a |-> {}, ops |-> <<>>]
NoProcessor == newStatsProcessor(parseStatsCountEmpty(<<>>))

----------------------------------------------------------------------------
(* Specification *)

\* the components an operation does not use stay as they are here
IdleFilter ==
    /\ arch = "amd64"
    /\ bs = NoBlock
    /\ flt = NoFilter
    /\ bm0 = NoBitmap
    /\ bm = bm0
    /\ pool0 = EmptyPool
    /\ pool = pool0
    /\ calls = <<>>

IdleStats ==
    /\ br = NoBlockResult
    /\ scp0 = NoProcessor
    /\ scp = scp0
    /\ ret = 0
    /\ rowNext = 0

IdleMerge ==
    /\ procs0 = <<>>
    /\ procs = procs0
    /\ live = {}
    /\ merges = <<>>

IdleOnce ==
    /\ ast = newFilterAnyCasePhrase("", S_empty)
    /\ wpc = <<>>
    /\ wget = <<>>
    /\ wret = <<>>
    /\ waited = <<>>
    /\ initRuns = <<>>
    /\ alocal = <<>>

IdleParse ==
    /\ qs = ""
    /\ qast = NoFilter
    /\ qstr = ""
    /\ qast2 = NoFilter
    /\ qstr2 = ""
    /\ qerr2 = FALSE

IdleFieldsSet ==
    /\ fset = {}
    /\ fset0 = {}
    /\ fcall = NoCall
    /\ fcalls = 0

IdleTime ==
    /\ tq = NoTimeQuery
    /\ tnow = Timestamp(0, 0)
    /\ tft = NoFilterTime
    /\ tft0 = NoFilterTime

IdleIPv4 ==
    /\ ipq = [ip |-> <<0, 0, 0, 0>>, maskBits |-> 0]
    /\ ipf = [ok |-> FALSE, minValue |-> <<0, 0, 0, 0>>, maxValue |-> <<0, 0, 0, 0>>]

IdleNeeded ==
    /\ npipe = [byFields |-> <<>>, funcs |-> <<>>]
    /\ need0 = {}
    /\ unneed0 = {}
    /\ need = {}
    /\ unneed = {}

IdleOtlp ==
    /\ otlpReq = <<>>
    /\ hs = <<>>
    /\ wrLogsPool = <<>>
    /\ otelMetrics = NoMetrics

InitFilter(o, blocks, filters, pools, archs) ==
    /\ op = o
    /\ pc = "call"
    /\ arch \in archs
    /\ bs \in blocks
    /\ flt \in filters
    /\ bm0 \in Bitmaps
    /\ bm = bm0
    /\ pool0 \in pools
    /\ pool = pool0
    /\ calls = <<>>
    /\ IdleStats
    /\ IdleMerge
    /\ IdleOnce
    /\ IdleParse
    /\ IdleFieldsSet
    /\ IdleTime
    /\ IdleIPv4
    /\ IdleNeeded
    /\ IdleOtlp

\* apply on a filter freshly built: worker 1 makes the call; when the call starts
\* from the bitmap with every row set, worker 2 calls one of the getters of the same
\* filter meanwhile
InitAnyCasePhrase ==
    /\ op = "filterAnyCasePhrase.apply"
    /\ pc = "call"
    /\ arch = "amd64"
    /\ bs \in PhraseBlocks
    /\ flt \in AnyCasePhraseFilters
    /\ bm0 \in Bitmaps
    /\ bm = bm0
    /\ pool0 = EmptyPool
    /\ pool = pool0
    /\ calls = <<>>
    /\ IdleStats
    /\ IdleMerge
    /\ IdleParse
    /\ IdleFieldsSet
    /\ IdleTime
    /\ IdleIPv4
    /\ IdleNeeded
    /\ IdleOtlp
    /\ ast = newFilterAnyCasePhrase(flt.fieldName, flt.phrase)
    /\ wpc = [w \in Workers |-> IF w = 1 \/ (w = 2 /\ bm0.a = Rows(bm0.bitsLen)) THEN "Do"
                                 ELSE "done"]
    /\ \E g \in IF bm0.a = Rows(bm0.bitsLen) THEN Getters ELSE {"tokens"} :
           wget = [w \in Workers |-> IF w = 1 THEN "phraseLowercase" ELSE g]
    /\ wret = [w \in Workers |-> <<>>]
    /\ waited = [w \in Workers |-> FALSE]
    /\ initRuns = [g \in Getters |-> 0]
    /\ alocal = [g \in Getters |-> <<>>]

InitCountEmpty ==
    /\ op \in {"updateStatsForAllRows", "updateStatsForRow"}
    /\ pc = "call"
    /\ arch = "amd64"
    /\ bs = NoBlock
    /\ flt = NoFilter
    /\ bm0 = NoBitmap
    /\ bm = bm0
    /\ pool0 \in Pools
    /\ pool = pool0
    /\ calls = <<>>
    /\ IdleMerge
    /\ IdleOnce
    /\ IdleParse
    /\ IdleFieldsSet
    /\ IdleTime
    /\ IdleIPv4
    /\ IdleNeeded
    /\ IdleOtlp
    /\ br \in BlockResults
    /\ \E fields \in FieldLists, n \in {0, 1} :
            scp0 = [newStatsProcessor(parseStatsCountEmpty(fields)) EXCEPT !.rowsCount = n]
    /\ scp = scp0
    /\ ret = -1
    /\ rowNext = 0

InitMerge ==
    /\ op = "mergeState"
    /\ pc = "call"
    /\ IdleFilter
    /\ IdleStats
    /\ IdleOnce
    /\ IdleParse
    /\ IdleFieldsSet
    /\ IdleTime
    /\ IdleIPv4
    /\ IdleNeeded
    /\ IdleOtlp
    /\ procs0 \in [1 .. NumProcs -> Processors]
    /\ procs = procs0
    /\ live = 1 .. NumProcs
    /\ merges = <<>>

InitOnce ==
    /\ op = "getPhraseLowercase/getTokens"
    /\ pc = "call"
    /\ IdleFilter
    /\ IdleStats
    /\ IdleMerge
    /\ IdleParse
    /\ IdleFieldsSet
    /\ IdleTime
    /\ IdleIPv4
    /\ IdleNeeded
    /\ IdleOtlp
    /\ ast \in { newFilterAnyCasePhrase("foo", phrase) : phrase \in OncePhrases }
    /\ wpc = [w \in Workers |-> "Do"]
    /\ wget \in [Workers -> Getters]
    /\ wret = [w \in Workers |-> <<>>]
    /\ waited = [w \in Workers |-> FALSE]
    /\ initRuns = [g \in Getters |-> 0]
    /\ alocal = <<>>

\* the filters without operands in the query strings: words, a quoted phrase,
\* prefixes, field names, filter functions, stream filters and time filters
QueryPieces ==
    {"foo", "\"a b\"", "*", "foo*", "_msg:foo*", "foo *", "\"foo\" *", "_msg:foo", "exact:foo", "exact(foo*)",
     "_stream:{}", "_stream:{ \"foo\" =~ \"bar.+\" , baz!=\"a\" or x=\"y\"}",
     "_time:[-5m,now)", "_time:5m offset 1h", "in(foo,\"a b\")", "range[1, 2.5)",
     "ipv4_range(1.2.3.4/24)", "re(\"a.+\")"}

\* the second operands of the operators
QueryWords == {"foo", "_msg:foo"}

\* the operators between two operands, the last of them at the first level only
QueryOperators == <<" or ", " ", " AND ">>

\* q, and q under NOT and in parentheses
Unary(q) == {q, "!" \o q, "(" \o q \o ")", "! ( " \o q \o " )"}

\* a and b around the operator o, each with and without parentheses
Binary(a, o, b) == {a \o o \o b, "(" \o a \o ")" \o o \o b, a \o o \o "(" \o b \o ")"}

RECURSIVE QueriesOf(_)
\* the query strings with at most depth operators nested
QueriesOf(depth) ==
    IF depth = 0 THEN QueryPieces
    ELSE UNION {Unary(q) : q \in QueriesOf(depth - 1)}
            \cup UNION {Binary(a, QueryOperators[o], b) :
                            a \in QueriesOf(depth - 1), b \in QueryWords,
                            o \in 1 .. (IF depth = 1 THEN 3 ELSE 2)}

\* the query strings handed to ParseQuery
Queries == QueriesOf(MaxDepth)

\* the field names handed to the fieldsSet
FieldNames == {S_star, S_a, S_b}

\* the field lists handed to addAll and removeAll
FieldNameLists == UNION {[1 .. n -> FieldNames] : n \in 0 .. MaxFields}

InitFieldsSet ==
    /\ op = "fieldsSet"
    /\ pc = "call"
    /\ IdleFilter
    /\ IdleStats
    /\ IdleMerge
    /\ IdleOnce
    /\ IdleParse
    /\ IdleTime
    /\ IdleIPv4
    /\ IdleNeeded
    /\ IdleOtlp
    /\ fset = newFieldsSet
    /\ fset0 = fset
    /\ fcall = NoCall
    /\ fcalls = 0

\* the durations of TestParseTimeDuration and TestParseTimeRange
D_5m == Duration(FALSE, <<Part(50, "m")>>)
D_neg5_5m == Duration(TRUE, <<Part(55, "m")>>)
D_3d2h12m34s45ms ==
    Duration(FALSE, <<Part(30, "d"), Part(20, "h"), Part(120, "m"), Part(340, "s"), Part(450, "ms")>>)
D_1h == Duration(FALSE, <<Part(10, "h")>>)
D_neg3_5h5m45s == Duration(TRUE, <<Part(35, "h"), Part(50, "m"), Part(450, "s")>>)
D_1d5m == Duration(FALSE, <<Part(10, "d"), Part(50, "m")>>)
D_10ms == Duration(FALSE, <<Part(100, "ms")>>)
D_30m5s == Duration(FALSE, <<Part(300, "m"), Part(50, "s")>>)

TimeOffsets == {D_1h, D_neg3_5h5m45s, D_1d5m, D_10ms, D_30m5s}

\* 2023, 2023-03-01, 2023-03-01T21:20 and 2023-04-06T23, in UTC
Instants ==
    { Instant(Timestamp(1672531200, 0), Timestamp(31536000, 0)),
      Instant(Timestamp(1677628800, 0), Timestamp(86400, 0)),
      Instant(Timestamp(1677705600, 0), Timestamp(60, 0)),
      Instant(Timestamp(1680822000, 0), Timestamp(3600, 0)) }

TimeSpecs ==
    { DurationSpec(d) : d \in {D_5m, D_neg5_5m, D_3d2h12m34s45ms} }
    \cup { InstantSpec(i) : i \in Instants }
    \cup { RangeSpec(r[1], r[2], loIncl, hiIncl) :
             r \in {p \in Instants \X Instants : p[1].t.s < p[2].t.s},
             loIncl \in BOOLEAN, hiIncl \in BOOLEAN }

TimeQueries == { TimeQuery(spec, TRUE, offset) : spec \in TimeSpecs, offset \in TimeOffsets }

InitTime ==
    /\ op = "parseFilterTimeWithOffset"
    /\ pc = "call"
    /\ IdleFilter
    /\ IdleStats
    /\ IdleMerge
    /\ IdleOnce
    /\ IdleParse
    /\ IdleFieldsSet
    /\ IdleIPv4
    /\ IdleNeeded
    /\ IdleOtlp
    /\ tq \in TimeQueries
    /\ tnow \in {Timestamp(1700000000, 0), Timestamp(1700000000, 123456789)}
    /\ tft = NoFilterTime
    /\ tft0 = NoFilterTime

\* the addresses of TestParseFilterIPv4Range and the ends of the address space
IPv4Addresses ==
    { <<1, 2, 3, 0>>, <<1, 2, 3, 34>>, <<1, 2, 3, 15>>, <<1, 2, 3, 4>>, <<0, 0, 0, 0>>,
      <<255, 255, 255, 255>>, <<170, 85, 129, 126>> }

InitIPv4 ==
    /\ op = "ipv4_range"
    /\ pc = "call"
    /\ IdleFilter
    /\ IdleStats
    /\ IdleMerge
    /\ IdleOnce
    /\ IdleParse
    /\ IdleFieldsSet
    /\ IdleTime
    /\ IdleNeeded
    /\ IdleOtlp
    /\ ipq \in [ip : IPv4Addresses, maskBits : 0 .. 33]
    /\ ipf = [ok |-> FALSE, minValue |-> <<0, 0, 0, 0>>, maxValue |-> <<0, 0, 0, 0>>]

S_f1 == <<102, 49>>
S_f2 == <<102, 50>>
S_f3 == <<102, 51>>
S_r1 == <<114, 49>>
S_r2 == <<114, 50>>

\* the column names of the STATS cases of TestQueryGetNeededColumns
ColumnNames == {S_f1, S_f2, S_f3, S_r1, S_r2}

\* count_empty(...) as r1 and, with two aggregators, count_empty(...) as r2
StatsFuncLists ==
    LET Fields == {<<S_f2>>, <<S_f1, S_f2>>, <<S_f3>>, <<S_star>>}
    IN  {<<[fields |-> a, resultName |-> S_r1]>> : a \in Fields}
        \cup {<<[fields |-> a, resultName |-> S_r1], [fields |-> b, resultName |-> S_r2]>> :
                 a \in Fields, b \in Fields}

\* the sets a walk over the later pipes can leave: either "*" is needed and some
\* columns are unneeded, or a list of columns is needed and none is unneeded
InitNeeded ==
    /\ op = "updateNeededFields"
    /\ pc = "call"
    /\ IdleFilter
    /\ IdleStats
    /\ IdleMerge
    /\ IdleOnce
    /\ IdleParse
    /\ IdleFieldsSet
    /\ IdleTime
    /\ IdleIPv4
    /\ IdleOtlp
    /\ npipe \in [byFields : {<<>>, <<S_f1>>, <<S_f3, S_f1>>}, funcs : StatsFuncLists]
    /\ \/ need0 = {S_star} /\ unneed0 \in SUBSET ColumnNames
       \/ need0 \in SUBSET ColumnNames /\ unneed0 = {}
    /\ need = need0
    /\ unneed = unneed0

\* string number n of request r
Str(r, n) == <<r, n>>

KeyValue(key, value) == [Key |-> key, Value |-> [StringValue |-> value]]

\* a log record of request r with timestamp t
LogRecord(r, t, severity) ==
    [Attributes |-> <<KeyValue("a", Str(r, t))>>, Severity |-> severity,
     Body |-> [StringValue |-> Str(r, 10 + t)], Timestamp |-> t]

NilResource == [isNil |-> TRUE, Attributes |-> <<>>]

Resource(attributes) == [isNil |-> FALSE, Attributes |-> attributes]

PushRequest(format, isGzipped, fails, r, resourceLogs) ==
    [format |-> format, isGzipped |-> isGzipped, fails |-> fails, body |-> <<r>>,
     req |-> [ResourceLogs |-> resourceLogs]]

\* the requests a client r can send: four that unpack (no ResourceLogs; a nil Resource
\* without records; one resource with two records in a scope; two resources, the
\* second one nil with three scopes) and four that fail
PushRequests(r) ==
    { PushRequest("json", FALSE, "none", r, <<>>),
      PushRequest("protobuf", FALSE, "none", r, <<[Resource |-> NilResource, ScopeLogs |-> <<>>]>>),
      PushRequest("json", FALSE, "none", r,
          <<[Resource |-> Resource(<<KeyValue("region", Str(r, 20)), KeyValue("host", Str(r, 21))>>),
             ScopeLogs |-> <<[LogRecords |-> <<LogRecord(r, 1, <<>>), LogRecord(r, 2, Str(r, 0))>>]>>]>>),
      PushRequest("protobuf", TRUE, "none", r,
          <<[Resource |-> Resource(<<KeyValue("region", Str(r, 20))>>),
             ScopeLogs |-> <<[LogRecords |-> <<LogRecord(r, 1, Str(r, 0))>>]>>],
            [Resource |-> NilResource,
             ScopeLogs |-> <<[LogRecords |-> <<LogRecord(r, 2, <<>>)>>],
                             [LogRecords |-> <<>>],
                             [LogRecords |-> <<LogRecord(r, 3, <<>>)>>]>>]>>),
      PushRequest("json", FALSE, "params", r, <<>>),
      PushRequest("protobuf", TRUE, "gzip", r, <<>>),
      PushRequest("json", FALSE, "read", r, <<>>),
      PushRequest("protobuf", FALSE, "unmarshal", r, <<>>) }

InitOtlp ==
    /\ op = "handleInsert"
    /\ pc = "call"
    /\ IdleFilter
    /\ IdleStats
    /\ IdleMerge
    /\ IdleOnce
    /\ IdleParse
    /\ IdleFieldsSet
    /\ IdleTime
    /\ IdleIPv4
    /\ IdleNeeded
    /\ \E q \in [1 .. MaxRequests -> UNION {PushRequests(r) : r \in 1 .. MaxRequests}] :
           /\ \A r \in 1 .. MaxRequests : q[r] \in PushRequests(r)
           /\ otlpReq = q
    /\ hs = [r \in 1 .. MaxRequests |->
                 [pc |-> "handleInsert", wr |-> NewWriteLogsContext, reused |-> FALSE, n |-> 0,
                  err |-> FALSE, calls |-> <<>>, reported |-> 0, handled |-> FALSE]]
    /\ wrLogsPool = <<>>
    /\ otelMetrics = NoMetrics

InitParse ==
    /\ op = "ParseQuery"
    /\ pc = "call"
    /\ IdleFilter
    /\ IdleStats
    /\ IdleMerge
    /\ IdleOnce
    /\ IdleFieldsSet
    /\ IdleTime
    /\ IdleIPv4
    /\ IdleNeeded
    /\ IdleOtlp
    /\ \E q \in Queries : ParseQuery(q).ok /\ qs = q
    /\ qast = NoFilter
    /\ qstr = ""
    /\ qast2 = NoFilter
    /\ qstr2 = ""
    /\ qerr2 = FALSE

Init ==
    \/ InitFilter("filterOr.apply", TreeBlocks, OrFilters, Pools, {"amd64"})
    \/ InitFilter("filterNot.apply", TreeBlocks, NotFilters, Pools, {"amd64"})
    \/ InitFilter("filterStringRange.apply", AllBlocks, StringRangeFilters, {EmptyPool}, {"amd64"})
    \/ InitFilter("filterRange.apply", AllBlocks, RangeFilters, {EmptyPool}, {"amd64", "arm64"})
    \/ InitAnyCasePhrase
    \/ InitCountEmpty
    \/ InitMerge
    \/ InitOnce
    \/ InitParse
    \/ InitFieldsSet
    \/ InitTime
    \/ InitIPv4
    \/ InitNeeded
    \/ InitOtlp

FilterOrApply ==
    /\ pc = "call" /\ op = "filterOr.apply"
    /\ \E r \in {filterOr_apply(flt, bs, bm, pool)} :
            bm' = r.bm /\ pool' = r.pool /\ calls' = r.calls
    /\ pc' = "done"
    /\ UNCHANGED <<op, arch, bs, flt, bm0, pool0, outsideFilter>>

FilterNotApply ==
    /\ pc = "call" /\ op = "filterNot.apply"
    /\ \E r \in {filterNot_apply(flt, bs, bm, pool)} :
            bm' = r.bm /\ pool' = r.pool /\ calls' = r.calls
    /\ pc' = "done"
    /\ UNCHANGED <<op, arch, bs, flt, bm0, pool0, outsideFilter>>

FilterStringRangeApply ==
    /\ pc = "call" /\ op = "filterStringRange.apply"
    /\ bm' = filterStringRange_apply(flt, bs, bm)
    /\ pc' = "done"
    /\ UNCHANGED <<op, arch, bs, flt, bm0, pool0, pool, calls, outsideFilter>>

FilterRangeApply ==
    /\ pc = "call" /\ op = "filterRange.apply"
    /\ bm' = filterRange_apply(flt, bs, bm)
    /\ pc' = "done"
    /\ UNCHANGED <<op, arch, bs, flt, bm0, pool0, pool, calls, outsideFilter>>

\* apply after getPhraseLowercase returned: with a column for the field it calls
\* getTokens, and goes on when that has returned
FilterAnyCasePhraseApply ==
    /\ pc = "call" /\ op = "filterAnyCasePhrase.apply"
    /\ wpc[1] \in {"apply", "match"}
    /\ IF /\ wpc[1] = "apply"
          /\ getConstColumnValue(bs.csh.constColumns, flt.fieldName) = S_empty
          /\ Len(getColumnHeader(bs.csh.columnsHeaders, flt.fieldName)) > 0
       THEN /\ wget' = [wget EXCEPT ![1] = "tokens"]
            /\ wpc' = [wpc EXCEPT ![1] = "Do"]
            /\ UNCHANGED <<bm, pc>>
       ELSE /\ bm' = filterAnyCasePhrase_apply(flt, bs, bm, alocal["phraseLowercase"],
                                               alocal["tokens"])
            /\ wpc' = [wpc EXCEPT ![1] = "done"]
            /\ pc' = IF \A v \in Workers \ {1} : wpc[v] = "done" THEN "done" ELSE "call"
            /\ UNCHANGED wget
    /\ UNCHANGED <<op, arch, bs, flt, bm0, pool0, pool, calls, ast, wret, waited, initRuns,
                   alocal, statsVars, mergeVars, parseVars, fieldsSetVars, timeVars, iPv4Vars,
                   neededVars, otlpVars>>

UpdateStatsForAllRows ==
    /\ pc = "call" /\ op = "updateStatsForAllRows"
    /\ \E r \in {updateStatsForAllRows(scp, br, pool)} :
            /\ scp' = [scp EXCEPT !.rowsCount = r.rowsCount]
            /\ pool' = r.pool
            /\ ret' = r.ret
    /\ pc' = "done"
    /\ UNCHANGED <<op, br, scp0, rowNext, outsideStats>>

\* one call of updateStatsForRow, for the rows of the block in order
UpdateStatsForRow ==
    /\ pc = "call" /\ op = "updateStatsForRow"
    /\ \E r \in {updateStatsForRow(scp, br, rowNext)} :
            /\ scp' = [scp EXCEPT !.rowsCount = r.rowsCount]
            /\ ret' = r.ret
    /\ rowNext' = rowNext + 1
    /\ pc' = IF rowNext + 1 = br.timestamps THEN "done" ELSE "call"
    /\ UNCHANGED <<op, br, scp0, pool, outsideStats>>

\* a worker's processor is merged into the processor of another worker and is
\* not used as a source again
MergeState ==
    /\ pc = "call" /\ op = "mergeState"
    /\ \E dst \in live : \E src \in live \ {dst} :
        \E r \in {mergeState(procs[dst], procs[src])} :
            /\ procs' = [procs EXCEPT ![dst] = r.scp, ![src] = r.src]
            /\ live' = live \ {src}
            /\ merges' = Append(merges, [dst |-> dst, src |-> src, scp |-> procs[dst],
                                         sfp |-> procs[src], after |-> r])
            /\ pc' = IF Cardinality(live') = 1 THEN "done" ELSE "call"
    /\ UNCHANGED <<op, procs0, outsideMerge>>

\* a step of a getter call, made on its own or from apply
OnceStep(w) ==
    /\ pc = "call"
    /\ op \in {"getPhraseLowercase/getTokens", "filterAnyCasePhrase.apply"}
    /\ w \in Workers

\* mutant: the getter tests the memo itself and runs the init function without
\* going through the Once
OnceDo_unguarded(w) ==
    /\ OnceStep(w) /\ wpc[w] = "Do"
    /\ wpc' = [wpc EXCEPT ![w] = IF ast.memo[wget[w]] # <<>> THEN "return" ELSE "f"]
    /\ waited' = [waited EXCEPT ![w] = ast.once[wget[w]].m # 0]
    /\ UNCHANGED <<op, pc, ast, wget, wret, initRuns, alocal, outsideOnce>>

\* Once.Do: the fast path loads the done flag
OnceDo(w) ==
    /\ OnceStep(w) /\ wpc[w] = "Do"
    /\ wpc' = [wpc EXCEPT ![w] = IF ast.once[wget[w]].done = 1 THEN "return" ELSE "Lock"]
    /\ waited' = [waited EXCEPT ![w] = ast.once[wget[w]].m # 0]
    /\ UNCHANGED <<op, pc, ast, wget, wret, initRuns, alocal, outsideOnce>>

\* doSlow: o.m.Lock() waits until the mutex is free
OnceLock(w) ==
    /\ OnceStep(w) /\ wpc[w] = "Lock"
    /\ ast.once[wget[w]].m = 0
    /\ ast' = [ast EXCEPT !.once[wget[w]].m = w]
    /\ wpc' = [wpc EXCEPT ![w] = "doSlow"]
    /\ UNCHANGED <<op, pc, wget, wret, waited, initRuns, alocal, outsideOnce>>

\* doSlow: the done flag is loaded again under the mutex
OnceDoSlow(w) ==
    /\ OnceStep(w) /\ wpc[w] = "doSlow"
    /\ wpc' = [wpc EXCEPT ![w] = IF ast.once[wget[w]].done = 0 THEN "f" ELSE "Unlock"]
    /\ UNCHANGED <<op, pc, ast, wget, wret, waited, initRuns, alocal, outsideOnce>>

\* f(): initPhraseLowercase or initTokens stores the memo
OnceInit(w) ==
    /\ OnceStep(w) /\ wpc[w] = "f"
    /\ ast' = [ast EXCEPT !.memo[wget[w]] = initOf(wget[w], ast.phrase)]
    /\ initRuns' = [initRuns EXCEPT ![wget[w]] = @ + 1]
    /\ wpc' = [wpc EXCEPT ![w] = "Store"]
    /\ UNCHANGED <<op, pc, wget, wret, waited, alocal, outsideOnce>>

\* the deferred o.done.Store(1)
OnceStore(w) ==
    /\ OnceStep(w) /\ wpc[w] = "Store"
    /\ ast' = [ast EXCEPT !.once[wget[w]].done = 1]
    /\ wpc' = [wpc EXCEPT ![w] = "Unlock"]
    /\ UNCHANGED <<op, pc, wget, wret, waited, initRuns, alocal, outsideOnce>>

\* the deferred o.m.Unlock()
OnceUnlock(w) ==
    /\ OnceStep(w) /\ wpc[w] = "Unlock"
    /\ ast' = [ast EXCEPT !.once[wget[w]].m = 0]
    /\ wpc' = [wpc EXCEPT ![w] = "return"]
    /\ UNCHANGED <<op, pc, wget, wret, waited, initRuns, alocal, outsideOnce>>

\* return fp.phraseLowercase / return fp.tokens
GetterReturn(w) ==
    /\ OnceStep(w) /\ wpc[w] = "return"
    /\ wret' = [wret EXCEPT ![w] = ast.memo[wget[w]]]
    /\ IF op = "filterAnyCasePhrase.apply" /\ w = 1
       THEN /\ alocal' = [alocal EXCEPT ![wget[w]] = ast.memo[wget[w]]]
            /\ wpc' = [wpc EXCEPT ![w] = IF wget[w] = "phraseLowercase" THEN "apply"
                                         ELSE "match"]
            /\ UNCHANGED pc
       ELSE /\ wpc' = [wpc EXCEPT ![w] = "done"]
            /\ pc' = IF \A v \in Workers \ {w} : wpc[v] = "done" THEN "done" ELSE "call"
            /\ UNCHANGED alocal
    /\ UNCHANGED <<op, ast, wget, waited, initRuns, outsideOnce>>

\* q, err := ParseQuery(s), on the query string and then on the string printed from it
ParseQueryCall ==
    /\ op = "ParseQuery" /\ pc \in {"call", "reparse"}
    /\ IF pc = "call"
       THEN qast' = ParseQuery(qs).f /\ pc' = "String" /\ UNCHANGED <<qast2, qerr2>>
       ELSE \E r \in {ParseQuery(qstr)} :
                /\ qerr2' = ~r.ok
                /\ qast2' = IF r.ok THEN r.f ELSE qast2
                /\ pc' = IF r.ok THEN "String2" ELSE "done"
                /\ UNCHANGED qast
    /\ UNCHANGED <<op, qs, qstr, qstr2, outsideParse>>

\* q.String(), on the parsed filter and then on the re-parsed one
QueryString ==
    /\ op = "ParseQuery" /\ pc \in {"String", "String2"}
    /\ IF pc = "String"
       THEN qstr' = String(qast) /\ UNCHANGED qstr2
       ELSE qstr2' = String(qast2) /\ UNCHANGED qstr
    /\ pc' = IF pc = "String" THEN "reparse" ELSE "done"
    /\ UNCHANGED <<op, qs, qast, qast2, qerr2, outsideParse>>

\* one more call on the fieldsSet
FieldsSetCall(call, after) ==
    /\ op = "fieldsSet" /\ pc = "call"
    /\ fcall' = call
    /\ fset0' = fset
    /\ fset' = after
    /\ fcalls' = fcalls + 1
    /\ pc' = IF fcalls + 1 = MaxCalls THEN "done" ELSE "call"
    /\ UNCHANGED <<op, outsideFieldsSet>>

FieldsSetAdd == \E f \in FieldNames : FieldsSetCall(Call("add", <<f>>), fieldsSet_add(fset, f))

FieldsSetAddAll ==
    \E fields \in FieldNameLists : FieldsSetCall(Call("addAll", fields), fieldsSet_addAll(fset, fields))

FieldsSetRemove ==
    \E f \in FieldNames : FieldsSetCall(Call("remove", <<f>>), fieldsSet_remove(fset, f))

FieldsSetRemoveAll ==
    \E fields \in FieldNameLists :
        FieldsSetCall(Call("removeAll", fields), fieldsSet_removeAll(fset, fields))

FieldsSetReset == FieldsSetCall(Call("reset", <<>>), fieldsSet_reset(fset))

\* ParseQuery("_time:" + s), with the offset and then without it
ParseFilterTime ==
    /\ op = "parseFilterTimeWithOffset" /\ pc \in {"call", "plain"}
    /\ IF pc = "call"
       THEN tft' = parseFilterTimeWithOffset(tq, tnow) /\ UNCHANGED tft0
       ELSE tft0' = parseFilterTimeWithOffset([tq EXCEPT !.hasOffset = FALSE], tnow) /\ UNCHANGED tft
    /\ pc' = IF pc = "call" THEN "plain" ELSE "done"
    /\ UNCHANGED <<op, tq, tnow, outsideTime>>

\* ParseQuery on ipv4_range(a.b.c.d/N)
ParseFilterIPv4Range ==
    /\ op = "ipv4_range" /\ pc = "call"
    /\ ipf' = tryParseIPv4Mask(ipq.ip, ipq.maskBits)
    /\ pc' = "done"
    /\ UNCHANGED <<op, ipq, outsideIPv4>>

\* the step of getNeededColumns at a STATS pipe
UpdateNeededFields ==
    /\ op = "updateNeededFields" /\ pc = "call"
    /\ \E r \in {pipeStats_updateNeededFields(npipe, need, unneed)} :
           need' = r.neededFields /\ unneed' = r.unneededFields
    /\ pc' = "done"
    /\ UNCHANGED <<op, npipe, need0, unneed0, outsideNeeded>>

AllReturned(h) == \A r \in DOMAIN h : h[r].pc = "returned"

\* handleInsert up to the call of ParseLogsStream
HandleInsert ==
    /\ op = "handleInsert" /\ pc = "call"
    /\ \E r \in DOMAIN hs :
        /\ hs[r].pc = "handleInsert"
        /\ otelMetrics' = [otelMetrics EXCEPT ![otlpReq[r].format].requestsTotal = @ + 1]
        /\ hs' = [hs EXCEPT ![r] =
                      IF otlpReq[r].fails = "params"
                      THEN [@ EXCEPT !.pc = "returned", !.reported = @ + 1, !.handled = TRUE]
                      ELSE [@ EXCEPT !.pc = "ParseLogsStream"]]
    /\ pc' = IF AllReturned(hs') THEN "done" ELSE "call"
    /\ UNCHANGED <<op, otlpReq, wrLogsPool, outsideOtlp>>

\* ParseLogsStream up to the call of readAndUnpackLogsRequest
ParseLogsStream ==
    /\ op = "handleInsert" /\ pc = "call"
    /\ \E r \in DOMAIN hs :
        /\ hs[r].pc = "ParseLogsStream"
        /\ IF otlpReq[r].isGzipped /\ otlpReq[r].fails = "gzip"
           THEN /\ hs' = [hs EXCEPT ![r].pc = "return", ![r].n = 0, ![r].err = TRUE]
                /\ UNCHANGED wrLogsPool
           ELSE \E g \in getWriteLogsContext(wrLogsPool) :
                /\ hs' = [hs EXCEPT ![r].pc = "readAndUnpackLogsRequest", ![r].wr = g.wr,
                                     ![r].reused = g.reused]
                /\ wrLogsPool' = g.pool
    /\ UNCHANGED <<op, pc, otlpReq, otelMetrics, outsideOtlp>>

ReadAndUnpackLogsRequest ==
    /\ op = "handleInsert" /\ pc = "call"
    /\ \E r \in DOMAIN hs :
        /\ hs[r].pc = "readAndUnpackLogsRequest"
        /\ \E u \in {readAndUnpackLogsRequest(hs[r].wr, otlpReq[r])} :
               hs' = [hs EXCEPT ![r].wr = u.wr, ![r].n = 0, ![r].err = u.err,
                                ![r].pc = IF u.err THEN "putWriteLogsContext"
                                          ELSE "parseLogsRequest"]
    /\ UNCHANGED <<op, pc, otlpReq, wrLogsPool, otelMetrics, outsideOtlp>>

ParseLogsRequest ==
    /\ op = "handleInsert" /\ pc = "call"
    /\ \E r \in DOMAIN hs :
        /\ hs[r].pc = "parseLogsRequest"
        /\ \E a \in {parseLogsRequest(hs[r].wr, otlpReq[r].req)} :
               hs' = [hs EXCEPT ![r].wr = a.wr, ![r].calls = a.calls, ![r].n = a.count,
                                ![r].pc = "putWriteLogsContext"]
    /\ UNCHANGED <<op, pc, otlpReq, wrLogsPool, otelMetrics, outsideOtlp>>

\* the deferred putWriteLogsContext of ParseLogsStream
PutWriteLogsContext ==
    /\ op = "handleInsert" /\ pc = "call"
    /\ \E r \in DOMAIN hs :
        /\ hs[r].pc = "putWriteLogsContext"
        /\ wrLogsPool' = putWriteLogsContext(wrLogsPool, hs[r].wr)
        /\ hs' = [hs EXCEPT ![r].wr = writeLogsContext_reset(@), ![r].pc = "return"]
    /\ UNCHANGED <<op, pc, otlpReq, otelMetrics, outsideOtlp>>

\* handleInsert after ParseLogsStream returned: the error is reported and the
\* handler returns, or the rows are added to ingestedTotal
HandleInsertReturn ==
    /\ op = "handleInsert" /\ pc = "call"
    /\ \E r \in DOMAIN hs :
        /\ hs[r].pc = "return"
        /\ \E x \in {handleInsert_result(otelMetrics[otlpReq[r].format], hs[r].n, hs[r].err)} :
            /\ otelMetrics' = [otelMetrics EXCEPT ![otlpReq[r].format] = x.metrics]
            /\ hs' = [hs EXCEPT ![r].pc = x.pc, ![r].handled = (x.pc = "returned"),
                                 ![r].reported = IF hs[r].err THEN @ + 1 ELSE @]
    /\ pc' = IF AllReturned(hs') THEN "done" ELSE "call"
    /\ UNCHANGED <<op, otlpReq, wrLogsPool, outsideOtlp>>

\* the last statements of handleInsert: the duration of the request is observed
\* and the handler returns true
HandleInsertUpdateDuration ==
    /\ op = "handleInsert" /\ pc = "call"
    /\ \E r \in DOMAIN hs :
        /\ hs[r].pc = "UpdateDuration"
        /\ otelMetrics' = [otelMetrics EXCEPT ![otlpReq[r].format] =
                               requestsDuration_UpdateDuration(@)]
        /\ hs' = [hs EXCEPT ![r].pc = "returned", ![r].handled = TRUE]
    /\ pc' = IF AllReturned(hs') THEN "done" ELSE "call"
    /\ UNCHANGED <<op, otlpReq, wrLogsPool, outsideOtlp>>

Next ==
    \/ FilterOrApply
    \/ FilterNotApply
    \/ FilterStringRangeApply
    \/ FilterRangeApply
    \/ FilterAnyCasePhraseApply
    \/ UpdateStatsForAllRows
    \/ UpdateStatsForRow
    \/ MergeState
    \/ \E w \in Workers : OnceDo(w)
    \/ \E w \in Workers : OnceLock(w)
    \/ \E w \in Workers : OnceDoSlow(w)
    \/ \E w \in Workers : OnceInit(w)
    \/ \E w \in Workers : OnceStore(w)
    \/ \E w \in Workers : OnceUnlock(w)
    \/ \E w \in Workers : GetterReturn(w)
    \/ ParseQueryCall
    \/ QueryString
    \/ FieldsSetAdd
    \/ FieldsSetAddAll
    \/ FieldsSetRemove
    \/ FieldsSetRemoveAll
    \/ FieldsSetReset
    \/ ParseFilterTime
    \/ ParseFilterIPv4Range
    \/ UpdateNeededFields
    \/ HandleInsert
    \/ ParseLogsStream
    \/ ReadAndUnpackLogsRequest
    \/ ParseLogsRequest
    \/ PutWriteLogsContext
    \/ HandleInsertReturn
    \/ HandleInsertUpdateDuration

Spec == Init /\ [][Next]_vars

----------------------------------------------------------------------------
(* Properties *)

Done(o) == pc = "done" /\ op = o

\* the bitmap a filter leaves when applied to a private bitmap holding rows
Result(f, rows) ==
    apply(f, bs, [id |-> 0, bitsLen |-> bm0.bitsLen, a |-> rows, ops |-> <<>>], EmptyPool).bm.a

\* filter f keeps row i
Keeps(f, i) == i \in Result(f, {i})

\* C1: filterOr.apply and filterNot.apply never set a bit that was cleared on
\* entry: every bit set afterwards was set before
C1_NoBitSet ==
    (Done("filterOr.apply") \/ Done("filterNot.apply")) => bm.a \subseteq bm0.a

\* a row cleared on entry that a branch matches stays cleared, next to a kept row
C1_Witness ==
    /\ Done("filterOr.apply")
    /\ bm.a # {}
    /\ \E i \in Rows(NumRows) \ bm0.a :
          i \notin bm.a /\ \E k \in 1 .. Len(flt.filters) : Keeps(flt.filters[k], i)

\* C2: filterOr.apply keeps bit i iff it was set on entry and some child keeps
\* row i; the result is the union of every child applied to a full copy of the
\* entry bitmap, though each child only sees the rows not matched before it;
\* an empty child list clears every bit
C2_OrIsUnion ==
    Done("filterOr.apply") =>
        /\ \A i \in Rows(NumRows) :
              i \in bm.a <=> (i \in bm0.a /\ \E k \in 1 .. Len(flt.filters) : Keeps(flt.filters[k], i))
        /\ bm.a = UNION { Result(flt.filters[k], bm0.a) : k \in 1 .. Len(flt.filters) }
        /\ \A k \in 1 .. Len(calls) : calls[k].arg = bm0.a \ calls[k].acc
        /\ (Len(flt.filters) = 0 => bm.a = {})

C2_Witness ==
    /\ Done("filterOr.apply")
    /\ Len(calls) >= 2
    /\ calls[2].arg # bm0.a
    /\ bm.a # {} /\ bm.a # bm0.a

\* C3: filterNot.apply keeps bit i iff it was set on entry and the inner filter,
\* applied to a copy of the entry bitmap, clears row i; rows cleared on entry
\* stay cleared
C3_NotIsComplement ==
    Done("filterNot.apply") =>
        /\ \A i \in Rows(NumRows) :
              i \in bm.a <=> (i \in bm0.a /\ i \notin Result(flt.filters[1], bm0.a))
        /\ \A i \in Rows(NumRows) \ bm0.a : i \notin bm.a

\* the inner filter clears a set row, which is kept, and a row cleared on entry
C3_Witness ==
    /\ Done("filterNot.apply")
    /\ \E i \in bm0.a : ~Keeps(flt.filters[1], i) /\ i \in bm.a
    /\ \E i \in Rows(NumRows) \ bm0.a : ~Keeps(flt.filters[1], i) /\ i \notin bm.a

\* C4: once the accumulated result of the branches applied so far covers the
\* entry bitmap, filterOr.apply invokes no further branch; with an all-zero
\* entry bitmap no branch is invoked and the bitmap is unchanged
C4_OrShortCircuit ==
    Done("filterOr.apply") =>
        /\ \A k \in 1 .. Len(calls) : calls[k].idx = k /\ ~(bm0.a \subseteq calls[k].acc)
        /\ (bm0.a = {} => calls = <<>> /\ bm.a = bm0.a)

C4_Witness ==
    /\ Done("filterOr.apply")
    /\ Len(calls) >= 1 /\ Len(calls) < Len(flt.filters)
    /\ bm.a = bm0.a

\* C5: NOT involution: filterNot{filterNot{f}} leaves the bitmap f leaves
C5_NotInvolution ==
    (Done("filterNot.apply") /\ flt.filters[1].type = "not") =>
        bm.a = Result(flt.filters[1].filters[1], bm0.a)

C5_Witness ==
    /\ Done("filterNot.apply") /\ flt.filters[1].type = "not"
    /\ bm.a # {} /\ bm.a # bm0.a

IsLeaf(f) == f.type \notin {"or", "not"}

\* C6: OR associativity: filterOr{filterOr{a,b},c}, filterOr{a,filterOr{b,c}}
\* and filterOr{a,b,c} leave the same bitmap
C6_OrAssociative ==
    (Done("filterOr.apply") /\ Len(flt.filters) = 3 /\ \A k \in 1 .. 3 : IsLeaf(flt.filters[k])) =>
        LET a == flt.filters[1]
            b == flt.filters[2]
            c == flt.filters[3]
        IN  /\ bm.a = Result(Or(<<Or(<<a, b>>), c>>), bm0.a)
            /\ bm.a = Result(Or(<<a, Or(<<b, c>>)>>), bm0.a)

C6_Witness ==
    /\ Done("filterOr.apply") /\ Len(flt.filters) = 3 /\ \A k \in 1 .. 3 : IsLeaf(flt.filters[k])
    /\ Len(calls) = 3
    /\ bm.a # {} /\ bm.a # bm0.a

Outstanding(p) == p.got - Len(p.put)

\* C7: every bitmap taken with getBitmap inside filterOr.apply, filterNot.apply
\* and updateStatsForAllRows is returned with putBitmap exactly once, so the
\* number of bitmaps lent out is the same after the call as before it
C7_PoolBalanced ==
    (Done("filterOr.apply") \/ Done("filterNot.apply") \/ Done("updateStatsForAllRows")) =>
        /\ Outstanding(pool) = Outstanding(pool0)
        /\ \A id \in (pool0.got + 1) .. pool.got :
              Cardinality({k \in 1 .. Len(pool.put) : pool.put[k] = id}) = 1
        /\ \A k \in 1 .. Len(pool.put) : pool.put[k] > pool0.got

C7_Witness ==
    /\ Done("filterOr.apply")
    /\ Len(calls) >= 1 /\ Len(calls) < Len(flt.filters)
    /\ pool.got >= pool0.got + 3
    /\ pool0.got = 1

\* s < t in byte-wise lexicographic order, by the first position where they differ
LexLess(s, t) ==
    \E k \in 1 .. Len(t) :
        /\ \A j \in 1 .. (k - 1) : j <= Len(s) /\ s[j] = t[j]
        /\ (k > Len(s) \/ (k - 1 < Len(s) /\ s[k] < t[k]))

InLexRange(s, lo, hi) == ~LexLess(s, lo) /\ LexLess(s, hi)

\* the header of column foo when the block stores it as a column of type t
HasColumn(types) ==
    /\ bs.csh.constColumns = <<>>
    /\ Len(bs.csh.columnsHeaders) = 1
    /\ bs.csh.columnsHeaders[1].valueType \in types

RowValue(i) == bs.csh.columnsHeaders[1].values[i + 1]

\* C8: string_range(min, max) on a string column keeps a set row with value s
\* iff min <= s < max byte-wise: the value min is kept, the value max is
\* cleared, and with min >= max no row is kept
C8_StringRangeHalfOpen ==
    (Done("filterStringRange.apply") /\ HasColumn({"string"})) =>
        /\ \A i \in Rows(NumRows) :
              i \in bm.a <=> (i \in bm0.a /\ InLexRange(RowValue(i), flt.minValue, flt.maxValue))
        /\ (~LexLess(flt.minValue, flt.maxValue) => bm.a = {})

C8_Witness ==
    /\ Done("filterStringRange.apply") /\ HasColumn({"string"})
    /\ \E i \in bm0.a : RowValue(i) = flt.minValue /\ i \in bm.a
    /\ \E i \in bm0.a : RowValue(i) = flt.maxValue /\ i \notin bm.a

\* the canonical string form of an encoded value of type t
CanonicalString(t, v) ==
    CASE t = "uint8"   -> toUint8String(v)
      [] t = "uint16"  -> toUint16String(v)
      [] t = "uint32"  -> toUint32String(v)
      [] t = "uint64"  -> toUint64String(v)
      [] t = "float64" -> toFloat64StringExt(v)
      [] t = "ipv4"    -> toIPv4StringExt(v)
      [] t = "iso8601" -> toTimestampISO8601StringExt(v)

\* the block with column foo stored as the strings vals
AsStringBlock(vals) == Block(<<>>, <<ColumnHeader("foo", "string", <<>>, vals)>>)

\* C9: on a uint8/uint16/uint32/uint64/float64/ipv4/iso8601 column string_range
\* keeps a set row iff the canonical string s of its value satisfies
\* min <= s < max, the result a string column holding those strings gives
C9_StringRangeTyped ==
    (Done("filterStringRange.apply") /\ HasColumn(NumericTypes)) =>
        LET t == bs.csh.columnsHeaders[1].valueType
            canon == [k \in 1 .. NumRows |-> CanonicalString(t, RowValue(k - 1))]
        IN  /\ \A i \in Rows(NumRows) :
                  i \in bm.a <=> (i \in bm0.a /\ InLexRange(canon[i + 1], flt.minValue, flt.maxValue))
            /\ bm.a = filterStringRange_apply(flt, AsStringBlock(canon), bm0).a

\* x as an exact number
UintValue(v) == FromUint64(ToUint64(v))

\* C10: range [min, max] on a uint8/uint16/uint32/uint64 column keeps a set row
\* with value x iff min <= x <= max, for negative, fractional and too large
\* bounds alike
C10_RangeUint ==
    (Done("filterRange.apply") /\ HasColumn(UintTypes)) =>
        \A i \in Rows(NumRows) :
            i \in bm.a <=> (/\ i \in bm0.a
                            /\ FLessEq(flt.minValue, UintValue(RowValue(i)))
                            /\ FLessEq(UintValue(RowValue(i)), flt.maxValue))

\* C11: filterRange.apply on an ipv4 or iso8601 column clears every bit, whatever
\* the interval and the stored values are
C11_RangeClearsIPv4ISO8601 ==
    (Done("filterRange.apply") /\ HasColumn({"ipv4", "iso8601"})) => bm.a = {}

\* an ipv4 column, all rows set on entry, the interval [-Inf, 2^65]
C11_Witness ==
    /\ Done("filterRange.apply") /\ HasColumn({"ipv4"})
    /\ bm0.a = Rows(NumRows)
    /\ flt.minValue = FInf(TRUE) /\ flt.maxValue = Flt(FALSE, <<2>> \o Zeros(8), FALSE)
    /\ bm.a = {}

FieldFilterOps == {"filterStringRange.apply", "filterRange.apply", "filterAnyCasePhrase.apply"}

\* a field filter has been applied
FieldFilterDone == pc = "done" /\ op \in FieldFilterOps

\* the block has neither a constant value nor a column header for the field
AbsentColumn ==
    /\ getConstColumnValue(bs.csh.constColumns, flt.fieldName) = S_empty
    /\ getColumnHeader(bs.csh.columnsHeaders, flt.fieldName) = <<>>

\* the predicate of the filter accepts the empty string
AcceptsEmpty ==
    CASE flt.type = "string_range" -> flt.minValue = S_empty /\ LexLess(S_empty, flt.maxValue)
      [] flt.type = "range"        -> FALSE
      [] flt.type = "i"            -> flt.phrase = S_empty

\* C12: on a block without the field, string_range, range and i() leave the
\* bitmap untouched when their predicate accepts "" (string_range with
\* min = "" < max, i() with the empty phrase) and reset it otherwise (range
\* always does); a string column holding "" in every row gives the same bitmap
C12_AbsentColumn ==
    (FieldFilterDone /\ AbsentColumn) =>
        /\ bm.a = (IF AcceptsEmpty THEN bm0.a ELSE {})
        /\ bm.a = apply(flt, AsStringBlock([k \in 1 .. NumRows |-> S_empty]), bm0, EmptyPool).bm.a

\* string_range("", "a") on a block without the field keeps every row
C12_Witness ==
    /\ Done("filterStringRange.apply") /\ AbsentColumn
    /\ flt.minValue = S_empty /\ flt.maxValue = S_a
    /\ bm0.a = Rows(NumRows) /\ bm.a = bm0.a

\* the constant value the block reports for the field of the filter
ConstValue == getConstColumnValue(bs.csh.constColumns, flt.fieldName)

\* the predicate of the filter accepts the string v
Accepts(v) ==
    CASE flt.type = "string_range" -> InLexRange(v, flt.minValue, flt.maxValue)
      [] flt.type = "range" ->
            LET f == tryParseFloat64(v)
            IN  Len(f) = 1 /\ FLessEq(flt.minValue, f[1]) /\ FLessEq(f[1], flt.maxValue)
      [] flt.type = "i" -> matchPhrase(toLower(v), toLower(flt.phrase))

\* C13: with a non-empty constant value v for the field, range, string_range
\* and i() leave the bitmap as it was when their predicate accepts v and clear
\* every bit otherwise; rows are never cleared in part
C13_ConstColumn ==
    (FieldFilterDone /\ ConstValue # S_empty) =>
        /\ bm.a = (IF Accepts(ConstValue) THEN bm0.a ELSE {})
        /\ (bm.a = bm0.a \/ bm.a = {})

\* i(A) on the constant value "A b" keeps every row
C13_Witness ==
    /\ Done("filterAnyCasePhrase.apply") /\ ConstValue = S_A_b
    /\ flt.phrase = S_A
    /\ bm0.a = Rows(NumRows) /\ bm.a = bm0.a

RangeFilterDone == pc = "done" /\ op \in {"filterRange.apply", "filterStringRange.apply"}

\* the bitmap was reset and neither a dict pre-match nor a row scan was made
ResetEarly ==
    /\ "resetBits" \in SeqRange(bm.ops)
    /\ "forEachSetBit" \notin SeqRange(bm.ops)
    /\ "matchEncodedValuesDict" \notin SeqRange(bm.ops)

\* the bounds of the filter are in order, so the evaluator gets past ENTER
BoundsInOrder ==
    CASE flt.type = "string_range" -> ~LexLess(flt.maxValue, flt.minValue)
      [] flt.type = "range"        -> ~FLess(flt.maxValue, flt.minValue)

\* HEADER-SKIP: the evaluator went past ENTER and CONST? and holds the header
\* of a numeric column
HeaderSkip == BoundsInOrder /\ HasColumn(NumericTypes)

\* C14 as stated: whenever filterRange.apply or filterStringRange.apply resets
\* the bitmap without a dict pre-match or a row scan and clears set bits that
\* way, it does so in HEADER-SKIP
C14_OnlyHeaderSkipClearsEarly ==
    (RangeFilterDone /\ ResetEarly /\ bm0.a # {}) => HeaderSkip

ConstRejected == ConstValue # S_empty /\ ~Accepts(ConstValue)

AbsentRejected == AbsentColumn /\ ~AcceptsEmpty

\* C14 amended: filterRange.apply and filterStringRange.apply reset the bitmap
\* without a dict pre-match or a row scan when min > max, when the constant
\* value is rejected, when the column is absent and "" is rejected, and when
\* range meets an ipv4 or iso8601 column; any other such reset is made with the
\* header of a numeric column at hand, and never on a string or dict column
C14_EarlyResets ==
    RangeFilterDone =>
        /\ ResetEarly => (~BoundsInOrder \/ ConstRejected \/ AbsentRejected \/ HasColumn(NumericTypes))
        /\ (\/ ~BoundsInOrder
            \/ ConstRejected
            \/ AbsentRejected
            \/ (flt.type = "range" /\ HasColumn({"ipv4", "iso8601"})))
                => (ResetEarly /\ bm.a = {})

\* string_range("99", "a") rejects the constant value "a" and resets at once
C14_Witness ==
    /\ Done("filterStringRange.apply") /\ ConstValue = S_a
    /\ flt.minValue = S_99 /\ flt.maxValue = S_a
    /\ bm0.a = Rows(NumRows) /\ bm.a = {} /\ bm.ops = <<"resetBits">>

\* the columns count_empty looks at: every column for "*", else the listed ones
CountedColumns ==
    IF scp0.sc.containsStar THEN SeqRange(getColumns(br))
    ELSE { getColumnByName(br, scp0.sc.fields[k]) : k \in 1 .. Len(scp0.sc.fields) }

\* the rows of the block in which all the counted fields are empty
AllEmptyRows ==
    { i \in Rows(br.timestamps) : \A c \in CountedColumns : getValueAtRow(c, br, i) = S_empty }

\* C15: updateStatsForAllRows increases rowsCount by the number of rows of the
\* block in which all listed fields are empty, for one field and for several,
\* for const, absent, string, dict, numeric and time columns
C15_CountEmptyAllRows ==
    Done("updateStatsForAllRows") => scp.rowsCount = scp0.rowsCount + Cardinality(AllEmptyRows)

RECURSIVE SumCounts(_, _)
\* the sum of the rowsCount of the processors ps[k] for k in S
SumCounts(ps, S) ==
    IF S = {} THEN 0
    ELSE LET k == CHOOSE x \in S : TRUE
         IN  ps[k].rowsCount + SumCounts(ps, S \ {k})

\* C16: whatever the order and the grouping of the mergeState calls, the one
\* processor left holds the sum of the rowsCount of all processors; each call
\* adds the source's count to the destination and leaves the source as it was
C16_MergeOrderFree ==
    op = "mergeState" =>
        /\ (pc = "done" => \A w \in live : procs[w].rowsCount = SumCounts(procs0, 1 .. NumProcs))
        /\ SumCounts(procs, live) = SumCounts(procs0, 1 .. NumProcs)
        /\ \A k \in 1 .. Len(merges) :
              /\ merges[k].after.scp.rowsCount = merges[k].scp.rowsCount + merges[k].sfp.rowsCount
              /\ merges[k].after.src = merges[k].sfp

\* three different counts merged as (1 into 3), then (3 into 2)
C16_Witness ==
    /\ Done("mergeState")
    /\ procs0[1].rowsCount = 1 /\ procs0[2].rowsCount = 2 /\ procs0[3].rowsCount = 5
    /\ Len(merges) = 2 /\ merges[1].dst = 3 /\ merges[1].src = 1 /\ merges[2].dst = 2
    /\ procs[2].rowsCount = 8

\* C17: under every interleaving of the workers the init function of a getter
\* runs at most once, has run exactly once when a call of that getter has
\* returned, and every call returns the initialized value, also a call that
\* entered Do while the initialization was under way
C17_OnceInit ==
    op = "getPhraseLowercase/getTokens" =>
        /\ \A g \in Getters : initRuns[g] <= 1
        /\ \A w \in Workers :
              wpc[w] = "done" =>
                  /\ initRuns[wget[w]] = 1
                  /\ wret[w] = (IF wget[w] = "phraseLowercase" THEN toLower(ast.phrase)
                                ELSE tokenizeStrings(ast.phrase))

\* both workers asked for the lowercased "A b"; one entered Do while the other
\* held the mutex of the Once, and both got "a b"
C17_Witness ==
    /\ Done("getPhraseLowercase/getTokens")
    /\ ast.phrase = S_A_b
    /\ \A w \in Workers : wget[w] = "phraseLowercase" /\ wret[w] = <<97, 32, 98>>
    /\ \E w \in Workers : waited[w]


----------------------------------------------------------------------------
(* C18: the parser round trip *)

ParseDone == op = "ParseQuery" /\ pc = "done"

RECURSIVE NodeTypes(_)
\* the node types of a filter tree
NodeTypes(f) == {f.type} \cup UNION {NodeTypes(f.filters[i]) : i \in 1 .. Len(f.filters)}

RECURSIVE DirectlyNested(_)
\* an OR node is an operand of an OR node, or an AND node of an AND node
DirectlyNested(f) ==
    \E i \in 1 .. Len(f.filters) :
        \/ f.type \in {"or", "and"} /\ f.filters[i].type = f.type
        \/ DirectlyNested(f.filters[i])

RECURSIVE NamesMsgField(_)
\* a filter in the tree names the field _msg, which is not printed
NamesMsgField(f) ==
    \/ f.fieldName = "_msg"
    \/ \E i \in 1 .. Len(f.filters) : NamesMsgField(f.filters[i])

RECURSIVE HasEmptyStream(_)
\* the stream filter "{}", which prints as the empty string, is in the tree
HasEmptyStream(f) ==
    \/ f.type = "stream" /\ f.orFilters = <<<<>>>>
    \/ \E i \in 1 .. Len(f.filters) : HasEmptyStream(f.filters[i])

----------------------------------------------------------------------------
(* C19: "*" in a fieldsSet *)

\* C19: after any sequence of add, addAll, remove, removeAll and reset, a set that
\* holds "*" holds nothing else, getAll returns exactly ["*"] and contains is true
\* of every field name; add on a set that holds "*" changes nothing, and add("*")
\* leaves "*" alone in the set
C19_StarOverrides ==
    op = "fieldsSet" =>
        /\ S_star \in fset =>
              /\ fset = {S_star}
              /\ fieldsSet_getAll(fset) = <<S_star>>
              /\ \A f \in FieldNames \cup {S_c, S_empty} : fieldsSet_contains(fset, f)
        /\ fcall.fn = "add" /\ S_star \in fset0 => fset = fset0
        /\ fcall = Call("add", <<S_star>>) => fset = {S_star}

\* add("*") discarded two fields, and then add("a") left the set as it was
C19_Witness ==
    /\ op = "fieldsSet"
    /\ fcall = Call("add", <<S_a>>)
    /\ fset0 = {S_star}
    /\ fset = {S_star}
    /\ fcalls = MaxCalls


----------------------------------------------------------------------------
(* C20: the offset of a time filter *)

TimeDone == op = "parseFilterTimeWithOffset" /\ pc = "done"

\* C20: for every accepted _time:<spec> offset D, minTimestamp and maxTimestamp are
\* the endpoints of _time:<spec> minus D nanoseconds, D of either sign, and the width
\* maxTimestamp - minTimestamp is the same with and without the offset
C20_TimeOffset ==
    TimeDone /\ tq.hasOffset =>
        /\ TsAdd(tft.minTimestamp, tryParseDuration(tq.offset)) = tft0.minTimestamp
        /\ TsAdd(tft.maxTimestamp, tryParseDuration(tq.offset)) = tft0.maxTimestamp
        /\ TsSub(tft.maxTimestamp, tft.minTimestamp) = TsSub(tft0.maxTimestamp, tft0.minTimestamp)

\* "5m offset -3.5h5m45s": the interval is five minutes wide and lies 3h35m45s later
C20_Witness ==
    /\ TimeDone
    /\ tq = TimeQuery(DurationSpec(D_5m), TRUE, D_neg3_5h5m45s)
    /\ TsSub(tft.maxTimestamp, tft.minTimestamp) = Timestamp(300, 0)
    /\ tft.maxTimestamp = Timestamp(tnow.s + 12945, tnow.ns)
    /\ tft0.maxTimestamp = tnow


----------------------------------------------------------------------------
(* C23: the header bounds skip of filterRange *)

ScannedTypes == UintTypes \cup {"float64"}

\* the stored value of row i as a number
NumericValue(i) ==
    IF bs.csh.columnsHeaders[1].valueType = "float64" THEN Float64frombits(RowValue(i))
    ELSE UintValue(RowValue(i))

\* the stored value of row i lies in [min, max]
InRange(i) == FLessEq(flt.minValue, NumericValue(i)) /\ FLessEq(NumericValue(i), flt.maxValue)

\* the verdict of the row scan on row i: the callback handed to visitValues
ScanKeeps(i) ==
    IF bs.csh.columnsHeaders[1].valueType = "float64" THEN InRange(i)
    ELSE LET r == toUint64Range(flt.minValue, flt.maxValue)
             n == ToUint64(RowValue(i))
         IN  U64LessEq(r.min, n) /\ U64LessEq(n, r.max)

\* C23: on a uint8/16/32/64 or float64 column whose header holds the smallest and
\* the largest stored value, the header check of filterRange resets the bitmap only
\* when no stored value lies in [min, max], and the bitmap left is the one the row
\* scan alone leaves
C23_HeaderSkipIsOptimization ==
    (Done("filterRange.apply") /\ HasColumn(ScannedTypes) /\ BoundsInOrder) =>
        /\ ResetEarly => \A i \in Rows(NumRows) : ~InRange(i)
        /\ bm.a = {i \in bm0.a : ScanKeeps(i)}


----------------------------------------------------------------------------
(* C24: the dict pre-match *)

\* the dictionary entry row i of the dict column points to
DecodedValue(i) ==
    bs.csh.columnsHeaders[1].valuesDict[bs.csh.columnsHeaders[1].values[i + 1][1] + 1]

\* C24: on a dict column range, string_range and i() keep a set row iff their
\* predicate holds for the dictionary entry the row points to; a string column
\* holding the decoded values gives the same bitmap, and a dictionary without a
\* matching entry clears every bit
C24_DictPreMatch ==
    (FieldFilterDone /\ HasColumn({"dict"})) =>
        /\ \A i \in Rows(NumRows) : i \in bm.a <=> (i \in bm0.a /\ Accepts(DecodedValue(i)))
        /\ bm.a = apply(flt, AsStringBlock([k \in 1 .. NumRows |-> DecodedValue(k - 1)]),
                        bm0, EmptyPool).bm.a
        /\ (\A k \in 1 .. Len(bs.csh.columnsHeaders[1].valuesDict) :
                ~Accepts(bs.csh.columnsHeaders[1].valuesDict[k])) => bm.a = {}

\* range on a dict column went through the dict pre-match, kept a row pointing to
\* "90" and cleared a row pointing to "a"
C24_Witness ==
    /\ Done("filterRange.apply") /\ HasColumn({"dict"})
    /\ "matchEncodedValuesDict" \in SeqRange(bm.ops)
    /\ \E i \in bm0.a : DecodedValue(i) = S_90 /\ i \in bm.a
    /\ \E i \in bm0.a : DecodedValue(i) = S_a /\ i \notin bm.a


----------------------------------------------------------------------------
(* C28: count_empty by block and by row *)

\* C28: calling updateStatsForRow for every row of a block increases rowsCount as
\* much as one call of updateStatsForAllRows on the block does, and both return 0
C28_AllRowsAsByRow ==
    Done("updateStatsForRow") =>
        /\ scp.rowsCount = updateStatsForAllRows(scp0, br, pool).rowsCount
        /\ ret = 0 /\ updateStatsForAllRows(scp0, br, pool).ret = 0


----------------------------------------------------------------------------
(* C29: fieldsSet.remove *)

\* C29: remove(f) with f other than "*" leaves a set that holds "*" as it is, and
\* contains(f) stays true; remove("*") empties the set; on a set without "*",
\* remove(f) deletes f and nothing else
C29_RemoveFrame ==
    (op = "fieldsSet" /\ fcall.fn = "remove") =>
        LET f == fcall.fields[1]
        IN  /\ (f # S_star /\ S_star \in fset0) => (fset = fset0 /\ fieldsSet_contains(fset, f))
            /\ f = S_star => fset = {}
            /\ (f # S_star /\ S_star \notin fset0) =>
                    /\ f \notin fset
                    /\ \A g \in fset0 \ {f} : g \in fset
                    /\ fset \subseteq fset0

\* remove("a") on the set {a, b} left {b}
C29_Witness ==
    /\ op = "fieldsSet"
    /\ fcall = Call("remove", <<S_a>>)
    /\ fset0 = {S_a, S_b}
    /\ fset = {S_b}


----------------------------------------------------------------------------
(* C21: ipv4_range with a prefix length *)

\* bit j of a 32-bit address, j = 1 for the highest bit
AddressBit(a, j) == (a[(j - 1) \div 8 + 1] \div Pow2(7 - ((j - 1) % 8))) % 2

\* C21: for ipv4_range(a.b.c.d/N) with 0 <= N <= 32 the first N bits of minValue and
\* of maxValue are those of the address, the other bits of minValue are 0 and those
\* of maxValue are 1; a prefix length above 32 is not accepted
C21_IPv4Prefix ==
    Done("ipv4_range") =>
        /\ ipf.ok <=> (ipq.maskBits <= 32)
        /\ ipf.ok =>
            \A j \in 1 .. 32 :
                /\ AddressBit(ipf.minValue, j) = (IF j <= ipq.maskBits THEN AddressBit(ipq.ip, j) ELSE 0)
                /\ AddressBit(ipf.maxValue, j) = (IF j <= ipq.maskBits THEN AddressBit(ipq.ip, j) ELSE 1)

\* ipv4_range("1.2.3.34/20") is 1.2.0.0 .. 1.2.15.255
C21_Witness ==
    /\ Done("ipv4_range")
    /\ ipq = [ip |-> <<1, 2, 3, 34>>, maskBits |-> 20]
    /\ ipf = [ok |-> TRUE, minValue |-> <<1, 2, 0, 0>>, maxValue |-> <<1, 2, 15, 255>>]


----------------------------------------------------------------------------
(* C22: needed columns of a STATS pipe *)

\* the later pipes need the column
NeededLater(x) == fieldsSet_contains(need0, x) /\ ~fieldsSet_contains(unneed0, x)

\* the aggregators whose result the later pipes need
NeededFuncs == {i \in 1 .. Len(npipe.funcs) : NeededLater(npipe.funcs[i].resultName)}

ByFieldSet == {npipe.byFields[i] : i \in 1 .. Len(npipe.byFields)}

FuncFieldSet(i) == {npipe.funcs[i].fields[j] : j \in 1 .. Len(npipe.funcs[i].fields)}

\* C22 as stated: after a STATS pipe the needed columns are the fields of all of its
\* aggregators and its by fields, whichever result names the later pipes need
C22_StatsNeedsAll ==
    Done("updateNeededFields") =>
        \A x \in ColumnNames :
            fieldsSet_contains(need, x) <=>
                \/ x \in ByFieldSet
                \/ \E i \in 1 .. Len(npipe.funcs) : x \in FuncFieldSet(i) \/ S_star \in FuncFieldSet(i)

\* C22, amended: after a STATS pipe nothing is unneeded, and a column is needed when
\* it is a field of an aggregator whose result the later pipes need, or a by field
\* and either some result or some by field is needed later
C22_StatsNeeds ==
    Done("updateNeededFields") =>
        /\ unneed = {}
        /\ \A x \in ColumnNames :
            fieldsSet_contains(need, x) <=>
                \/ x \in ByFieldSet /\ (NeededFuncs # {} \/ \E b \in ByFieldSet : NeededLater(b))
                \/ \E i \in NeededFuncs : x \in FuncFieldSet(i) \/ S_star \in FuncFieldSet(i)

\* stats by (f3, f1) count_empty(f2) r1, count_empty(f3) r2 | fields r1, f3 needs
\* both by fields and f2
C22_Witness ==
    /\ Done("updateNeededFields")
    /\ npipe = [byFields |-> <<S_f3, S_f1>>,
                funcs |-> <<[fields |-> <<S_f2>>, resultName |-> S_r1],
                            [fields |-> <<S_f3>>, resultName |-> S_r2]>>]
    /\ need0 = {S_r1, S_f3}
    /\ need = {S_f1, S_f2, S_f3}


----------------------------------------------------------------------------
(* C25, C26, C27, C30: OpenTelemetry logs ingestion *)

\* request r was unpacked and parseLogsRequest has run on it
Unpacked(r) ==
    /\ otlpReq[r].fails = "none"
    /\ hs[r].pc \in {"putWriteLogsContext", "return", "UpdateDuration", "returned"}

\* the positions in the call sequence of request r of the calls of fn for stream k
CallsOf(r, fn, k) ==
    {i \in DOMAIN hs[r].calls : hs[r].calls[i].fn = fn /\ hs[r].calls[i].stream = k}

RECURSIVE LogRecordsOf(_)
\* the log records of a ResourceLogs entry in request order
LogRecordsOf(scopeLogs) ==
    IF scopeLogs = <<>> THEN <<>>
    ELSE Head(scopeLogs).LogRecords \o LogRecordsOf(Tail(scopeLogs))

ResourceKeys(rl) ==
    IF rl.Resource.isNil THEN <<>>
    ELSE [i \in 1 .. Len(rl.Resource.Attributes) |-> rl.Resource.Attributes[i].Key]

\* C25: for every ResourceLogs entry k of an unpacked request there is exactly one
\* getStream call, made with the keys of the resource attributes; it is followed by
\* one processFn call per log record in request order and then by the only pushFn
\* call of k; the calls of entry k end before those of a later entry begin, and the
\* returned count is the number of processFn calls
C25_PushOrdering ==
    \A r \in DOMAIN hs :
        Unpacked(r) =>
            LET c == hs[r].calls
                rls == otlpReq[r].req.ResourceLogs
            IN  /\ \A i \in DOMAIN c : c[i].stream \in DOMAIN rls
                /\ hs[r].n = Cardinality({i \in DOMAIN c : c[i].fn = "processFn"})
                /\ \A k \in DOMAIN rls :
                    /\ Cardinality(CallsOf(r, "getStream", k)) = 1
                    /\ Cardinality(CallsOf(r, "pushFn", k)) = 1
                    /\ Cardinality(CallsOf(r, "processFn", k)) = Len(LogRecordsOf(rls[k].ScopeLogs))
                    /\ \A g \in CallsOf(r, "getStream", k) :
                        /\ c[g].streamFields = ResourceKeys(rls[k])
                        /\ \A j \in 1 .. Len(LogRecordsOf(rls[k].ScopeLogs)) :
                            /\ c[g + j].fn = "processFn"
                            /\ c[g + j].stream = k
                            /\ c[g + j].timestamp = LogRecordsOf(rls[k].ScopeLogs)[j].Timestamp
                        /\ CallsOf(r, "pushFn", k) = {g + Len(LogRecordsOf(rls[k].ScopeLogs)) + 1}
                        /\ \A k2 \in DOMAIN rls :
                            k < k2 => \A g2 \in CallsOf(r, "getStream", k2) :
                                          g + Len(LogRecordsOf(rls[k].ScopeLogs)) + 1 < g2

\* a request with two ResourceLogs entries and three log records has been handled
C25_Witness ==
    /\ Done("handleInsert")
    /\ Len(otlpReq[1].req.ResourceLogs) = 2
    /\ hs[1].n = 3
    /\ Len(hs[1].calls) = 7
    /\ hs[1].calls[3].fn = "pushFn"
    /\ hs[1].calls[4].streamFields = <<>>

RECURSIVE IngestedRows(_)
\* the rows of a set of requests
IngestedRows(S) ==
    IF S = {} THEN 0
    ELSE LET r == CHOOSE x \in S : TRUE IN hs[r].n + IngestedRows(S \ {r})

\* the requests of a format that were handled without an error
Ingested(f) ==
    {r \in DOMAIN hs : otlpReq[r].format = f /\ otlpReq[r].fails = "none" /\ hs[r].pc = "returned"}

\* the requests of a format whose rows were added to ingestedTotal: those handled
\* without an error and those that stand before the update of requestsDuration
Added(f) ==
    {r \in DOMAIN hs : otlpReq[r].format = f /\ otlpReq[r].fails = "none"
                        /\ hs[r].pc \in {"UpdateDuration", "returned"}}

\* C26: a request that fails in gunzipping, reading or unmarshalling gives (0, error),
\* makes no call of getStream, processFn or pushFn and is reported once, handleInsert
\* returning true; requestsTotal counts every request once, while ingestedTotal and
\* requestsDuration count the requests handled without an error only, ingestedTotal
\* from the statement before the one that updates requestsDuration
C26_ErrorPath ==
    /\ \A r \in DOMAIN hs :
        otlpReq[r].fails \in {"gzip", "read", "unmarshal"} =>
            /\ hs[r].calls = <<>>
            /\ hs[r].pc = "returned" =>
                hs[r].n = 0 /\ hs[r].err /\ hs[r].reported = 1 /\ hs[r].handled
    /\ op = "handleInsert" =>
        \A f \in Formats :
            /\ otelMetrics[f].requestsTotal =
                   Cardinality({r \in DOMAIN hs : otlpReq[r].format = f /\ hs[r].pc # "handleInsert"})
            /\ otelMetrics[f].ingestedTotal = IngestedRows(Added(f))
            /\ otelMetrics[f].requestsDuration = Cardinality(Ingested(f))

\* a protobuf request that failed to unmarshal and a json request with two rows
C26_Witness ==
    /\ Done("handleInsert")
    /\ otlpReq[1].fails = "unmarshal"
    /\ hs[1].reported = 1
    /\ otlpReq[2].fails = "none"
    /\ hs[2].n = 2
    /\ otelMetrics["protobuf"] = [requestsTotal |-> 1, ingestedTotal |-> 0, requestsDuration |-> 0]
    /\ otelMetrics["json"] = [requestsTotal |-> 1, ingestedTotal |-> 2, requestsDuration |-> 1]

\* the fields of one log record of a ResourceLogs entry
RecordFields(rl, lr) ==
    [i \in 1 .. Len(lr.Attributes) |-> Field(lr.Attributes[i].Key, lr.Attributes[i].Value.StringValue)]
    \o (IF lr.Severity = <<>> THEN <<>> ELSE <<Field("severity", lr.Severity)>>)
    \o <<Field("_msg", lr.Body.StringValue)>>
    \o (IF rl.Resource.isNil THEN <<>>
        ELSE [i \in 1 .. Len(rl.Resource.Attributes) |->
                 Field(rl.Resource.Attributes[i].Key, rl.Resource.Attributes[i].Value.StringValue)])

\* C27: every processFn call gets the fields of its own log record only: the
\* attributes of the record, severity when it is not empty, one _msg field, and then
\* the base fields of the resource
C27_OwnFieldsOnly ==
    \A r \in DOMAIN hs :
        Unpacked(r) =>
            \A k \in DOMAIN otlpReq[r].req.ResourceLogs :
                \A g \in CallsOf(r, "getStream", k) :
                    \A j \in 1 .. Len(LogRecordsOf(otlpReq[r].req.ResourceLogs[k].ScopeLogs)) :
                        hs[r].calls[g + j].fields =
                            RecordFields(otlpReq[r].req.ResourceLogs[k],
                                         LogRecordsOf(otlpReq[r].req.ResourceLogs[k].ScopeLogs)[j])

\* C30: a writeLogsContext just handed out by getWriteLogsContext is empty, so is every
\* pooled one, and every field passed to processFn for a request carries a value of
\* that request
C30_NoCarryOver ==
    /\ \A i \in DOMAIN wrLogsPool : wrLogsPool[i] = NewWriteLogsContext
    /\ \A r \in DOMAIN hs :
        /\ hs[r].pc = "readAndUnpackLogsRequest" => hs[r].wr = NewWriteLogsContext
        /\ \A i \in DOMAIN hs[r].calls :
            \A j \in DOMAIN hs[r].calls[i].fields : hs[r].calls[i].fields[j].Value[1] = r

\* request 2 processed rows with the context request 1 had processed rows with
C30_Witness ==
    /\ Done("handleInsert")
    /\ hs[1].n > 0
    /\ ~hs[1].reused
    /\ hs[2].reused
    /\ hs[2].n > 0
    /\ Len(wrLogsPool) = 1

====
